---- MODULE Spec2Model ----
(***************************************************************************)
(* Medication adherence and notification scheduling engine of the          *)
(* ai-elderly-medicare-system backend: the Notification lifecycle          *)
(* (models/notification.py, tasks/notification_tasks.py,                    *)
(* tasks/scheduled_tasks.py) and the Medication dosing model               *)
(* (models/medication.py, api/v1/medications.py).                          *)
(*                                                                         *)
(* Times are integer seconds on one clock, `now`.  A null column is NULL.  *)
(* Of a notification's columns the model keeps those that an operation of  *)
(* the engine reads or that a property below speaks of; delivered_at and   *)
(* read_at are stamped next to status and is_read and read by nothing.     *)
(***************************************************************************)
EXTENDS Integers, Sequences, FiniteSets, TLC

\* a null column: below every value a column takes
NULL == 0 - 1000000

Min(a, b) == IF a < b THEN a ELSE b

(***************************************************************************)
(* Bounds of the model.                                                    *)
(***************************************************************************)
\* seconds the clock advances in one Tick
TickSeconds == 600
\* number of Ticks the clock may take
MaxTicks == 2
\* send_notification tasks that may wait in the Celery queue per notification
MaxQueued == 1
\* transport invocations followed per notification
MaxTransportCalls == 2
\* how far mark_as_failed may be driven past max_retries
MaxOverrun == 1

(***************************************************************************)
(* Program constants.                                                      *)
(***************************************************************************)
\* Column(Integer, default=3)
DefaultMaxRetries == 3
\* min(300 * (2 ** retry_count), 3600)
BackoffBase == 300
BackoffCap == 3600
\* old_cutoff = now - timedelta(days=30)
RetentionSeconds == 30 * 86400

NotifIds == {1}

Statuses == {"pending", "sent", "delivered", "read", "failed", "cancelled"}

Channels == {"email", "sms", "push", "in_app", "phone_call", "portal"}

\* the clock at construction; rows created at 0 are older than the retention window
StartTime == RetentionSeconds + TickSeconds

EndTime == StartTime + MaxTicks * TickSeconds

VARIABLES
    now,            \* the clock
    notif,          \* the notifications table: id -> row
    queued,         \* send_notification tasks waiting in the Celery queue, per id
    transportCalls, \* invocations of the delivery transport, per id
    lastResult,     \* 'status' of the dict the last send_notification(id) returned
    workers,        \* concurrent send_notification executions: the step each is at
    med,            \* a medications row
    medResponse,    \* outcome of the last medication request
    doseDue,        \* what the last is_time_for_dose() call returned
    record,         \* a health_records row, with the patient it belongs to
    alerts,         \* the alerts list check_health_alerts last built for the record
    healthNotifs,   \* the notifications check_health_alerts added, in order
    scanLog,        \* what each check_health_alerts run did with the record, in order
    scans,          \* overlapping check_health_alerts executions: the step each is at
    meds,           \* the medications a scheduled run loads, each with its patient and prescription
    reminders,      \* the notifications the runs over medications and prescriptions added, in order
    runLog          \* what each of those runs did with each item, in order

vars == <<now, notif, queued, transportCalls, lastResult, workers, med, medResponse,
          doseDue, record, alerts, healthNotifs, scanLog, scans, meds, reminders, runLog>>

\* the state of the health-alert scan
healthVars == <<record, alerts, healthNotifs, scanLog, scans>>

\* the state of the runs over medications and prescriptions
batchVars == <<meds, reminders, runLog>>

\* what the notification tasks leave alone
nonNotifVars == <<workers, med, medResponse, doseDue, healthVars, batchVars>>

(***************************************************************************)
(* Notification model: properties and methods of the ORM object.           *)
(***************************************************************************)
\* a Notification row as the constructor and the column defaults leave it
NewNotification(channel, scheduled_for, expires_at, created_at) ==
    [exists |-> TRUE,
     status |-> "pending",
     channel |-> channel,
     scheduled_for |-> scheduled_for,
     expires_at |-> expires_at,
     created_at |-> created_at,
     sent_at |-> NULL,
     failed_at |-> NULL,
     failure_reason |-> "none",
     retry_count |-> 0,
     max_retries |-> DefaultMaxRetries,
     next_retry_at |-> NULL,
     is_read |-> FALSE]

\* Notification.is_expired at time t
is_expired(r, t) == r.expires_at # NULL /\ t > r.expires_at

\* Notification.can_retry at time t
can_retry(r, t) ==
    /\ r.status = "failed"
    /\ r.retry_count < r.max_retries
    /\ ~is_expired(r, t)

\* retry_delay of mark_as_failed
retry_delay(retry_count) == Min(BackoffBase * (2 ^ retry_count), BackoffCap)

mark_as_sent(r, t) == [r EXCEPT !.status = "sent", !.sent_at = t]

mark_as_delivered(r, t) == [r EXCEPT !.status = "delivered"]

mark_as_read(r, t) == [r EXCEPT !.status = "read", !.is_read = TRUE]

\* mutation: mark_as_failed that does not count the attempt
mark_as_failed_uncounted(r, reason, t) ==
    LET f == [r EXCEPT !.status = "failed",
                       !.failed_at = t,
                       !.failure_reason = reason]
    IN  IF can_retry(f, t)
        THEN [f EXCEPT !.next_retry_at = t + retry_delay(f.retry_count)]
        ELSE f

\* Notification.mark_as_failed at time t
mark_as_failed(r, reason, t) ==
    LET f == [r EXCEPT !.status = "failed",
                       !.failed_at = t,
                       !.failure_reason = reason,
                       !.retry_count = @ + 1]
    IN  IF can_retry(f, t)
        THEN [f EXCEPT !.next_retry_at = t + retry_delay(f.retry_count)]
        ELSE f

cancel(r) == [r EXCEPT !.status = "cancelled"]

(***************************************************************************)
(* The delivery transport per channel, as send_notification branches on    *)
(* it: what the channel helper can report, and whether a transport helper  *)
(* (send_email_notification, send_sms_notification,                        *)
(* send_push_notification) is invoked at all.                              *)
(***************************************************************************)
Delivery(channel) ==
    CASE channel \in {"email", "sms"} ->
            {[called |-> TRUE, success |-> TRUE, reason |-> "none"],
             [called |-> TRUE, success |-> FALSE, reason |-> "send_failed"]}
      [] channel = "push" ->
            {[called |-> TRUE, success |-> TRUE, reason |-> "none"]}
      [] channel = "in_app" ->
            {[called |-> FALSE, success |-> TRUE, reason |-> "none"]}
      [] OTHER ->
            {[called |-> FALSE, success |-> FALSE, reason |-> "unsupported"]}

\* a transport that fails on every attempt
FailingDelivery(channel) == {o \in Delivery(channel) : ~o.success}

(***************************************************************************)
(* Tasks.                                                                  *)
(***************************************************************************)
\* mutation: send_notification that never checks expires_at
expired_on_dispatch_unchecked(r, t) == FALSE

\* send_notification: notification.expires_at and datetime.utcnow() > notification.expires_at
expired_on_dispatch(r, t) == r.expires_at # NULL /\ t > r.expires_at

\* the clock advances
Tick ==
    /\ UNCHANGED nonNotifVars
    /\ now < EndTime
    /\ now' = now + TickSeconds
    /\ UNCHANGED <<notif, queued, transportCalls, lastResult>>

\* send_notification(notification_id), run by a worker that took it off the
\* queue; outcomes[channel] is what the channel branch can report
SendNotificationWith(n, outcomes) ==
    /\ UNCHANGED nonNotifVars
    /\ queued[n] > 0
    /\ queued' = [queued EXCEPT ![n] = @ - 1]
    /\ UNCHANGED now
    /\ LET r == notif[n] IN
       IF ~r.exists
       THEN /\ lastResult' = [lastResult EXCEPT ![n] = "failed"]
            /\ UNCHANGED <<notif, transportCalls>>
       ELSE IF r.status # "pending"
       THEN /\ lastResult' = [lastResult EXCEPT ![n] = "skipped"]
            /\ UNCHANGED <<notif, transportCalls>>
       ELSE IF expired_on_dispatch(r, now)
       THEN /\ notif' = [notif EXCEPT ![n].status = "cancelled"]
            /\ lastResult' = [lastResult EXCEPT ![n] = "expired"]
            /\ UNCHANGED transportCalls
       ELSE \E o \in outcomes[r.channel] :
            /\ transportCalls' = [transportCalls EXCEPT ![n] = @ + (IF o.called THEN 1 ELSE 0)]
            /\ IF o.success
               THEN /\ notif' = [notif EXCEPT ![n] = [r EXCEPT !.status = "sent", !.sent_at = now]]
                    /\ lastResult' = [lastResult EXCEPT ![n] = "success"]
               ELSE /\ notif' = [notif EXCEPT ![n] = mark_as_failed(r, o.reason, now)]
                    /\ lastResult' = [lastResult EXCEPT ![n] = "failed"]

SendNotification(n) == SendNotificationWith(n, [c \in Channels |-> Delivery(c)])

\* a worker runs a queued send_notification task
Dispatch(n) ==
    /\ transportCalls[n] < MaxTransportCalls
    /\ SendNotification(n)

\* the rows process_notification_queue selects
ReadyToSend(n) ==
    /\ notif[n].exists
    /\ notif[n].status = "pending"
    /\ (notif[n].scheduled_for = NULL \/ notif[n].scheduled_for <= now)
    /\ (notif[n].expires_at = NULL \/ notif[n].expires_at > now)

\* process_notification_queue: send_notification.delay(id) for every selected row
ProcessNotificationQueue ==
    /\ UNCHANGED nonNotifVars
    /\ \A n \in NotifIds : ReadyToSend(n) => queued[n] < MaxQueued
    /\ queued' = [n \in NotifIds |-> IF ReadyToSend(n) THEN queued[n] + 1 ELSE queued[n]]
    /\ UNCHANGED <<now, notif, transportCalls, lastResult>>

\* mutation: the retry query with retry_count <= max_retries
ReadyToRetryInclusive(n) ==
    /\ notif[n].exists
    /\ notif[n].status = "failed"
    /\ notif[n].retry_count <= notif[n].max_retries
    /\ (notif[n].next_retry_at = NULL \/ notif[n].next_retry_at <= now)
    /\ (notif[n].expires_at = NULL \/ notif[n].expires_at > now)

\* the rows retry_failed_notifications selects
ReadyToRetry(n) ==
    /\ notif[n].exists
    /\ notif[n].status = "failed"
    /\ notif[n].retry_count < notif[n].max_retries
    /\ (notif[n].next_retry_at = NULL \/ notif[n].next_retry_at <= now)
    /\ (notif[n].expires_at = NULL \/ notif[n].expires_at > now)

\* retry_failed_notifications: reset to pending, clear next_retry_at, queue
RetryFailedNotifications ==
    /\ UNCHANGED nonNotifVars
    /\ \A n \in NotifIds : ReadyToRetry(n) => queued[n] < MaxQueued
    /\ notif' = [n \in NotifIds |->
                    IF ReadyToRetry(n)
                    THEN [notif[n] EXCEPT !.status = "pending", !.next_retry_at = NULL]
                    ELSE notif[n]]
    /\ queued' = [n \in NotifIds |-> IF ReadyToRetry(n) THEN queued[n] + 1 ELSE queued[n]]
    /\ UNCHANGED <<now, transportCalls, lastResult>>

\* the status strings an external service reports
ReportedStatuses == {"delivered", "read", "failed", "sent"}

\* update_notification_delivery_status(notification_id, status, delivery_info)
UpdateNotificationDeliveryStatus(n, s) ==
    /\ UNCHANGED nonNotifVars
    /\ notif[n].exists
    /\ notif' = [notif EXCEPT ![n] =
                    CASE s = "delivered" -> [@ EXCEPT !.status = "delivered"]
                      [] s = "read" -> [@ EXCEPT !.status = "read", !.is_read = TRUE]
                      [] s = "failed" -> [@ EXCEPT !.status = "failed", !.failed_at = now,
                                                   !.failure_reason = "external"]
                      [] OTHER -> @]
    /\ UNCHANGED <<now, queued, transportCalls, lastResult>>

\* mutation: the cleanup cancelling every expired row, whatever its status
CleanupExpiredNotifications_any_status ==
    /\ UNCHANGED nonNotifVars
    /\ notif' = [n \in NotifIds |->
                    LET r == notif[n]
                        c == IF r.exists /\ r.expires_at # NULL /\ r.expires_at < now
                             THEN [r EXCEPT !.status = "cancelled"]
                             ELSE r
                    IN  IF c.exists /\ c.created_at < now - RetentionSeconds /\ c.is_read
                        THEN [c EXCEPT !.exists = FALSE]
                        ELSE c]
    /\ UNCHANGED <<now, queued, transportCalls, lastResult>>

\* cleanup_expired_notifications: cancel expired pending rows, delete old read rows
CleanupExpiredNotifications ==
    /\ UNCHANGED nonNotifVars
    /\ notif' = [n \in NotifIds |->
                    LET r == notif[n]
                        c == IF r.exists /\ r.expires_at # NULL /\ r.expires_at < now
                                /\ r.status = "pending"
                             THEN [r EXCEPT !.status = "cancelled"]
                             ELSE r
                    IN  IF c.exists /\ c.created_at < now - RetentionSeconds /\ c.is_read
                        THEN [c EXCEPT !.exists = FALSE]
                        ELSE c]
    /\ UNCHANGED <<now, queued, transportCalls, lastResult>>

\* def cleanup_old_notifications(self, days_old: int = 90)
DefaultDaysOld == 90

\* timedelta(days=days_old), in seconds
SecondsPerDay == 86400

\* cleanup_old_notifications with the age filter dropped
CleanupOldNotifications_any_age ==
    /\ UNCHANGED nonNotifVars
    /\ notif' = [n \in NotifIds |->
                    LET r == notif[n]
                    IN  IF /\ r.exists
                           /\ r.is_read \/ (r.expires_at # NULL /\ r.expires_at < now)
                        THEN [r EXCEPT !.exists = FALSE]
                        ELSE r]
    /\ UNCHANGED <<now, queued, transportCalls, lastResult>>

\* cleanup_old_notifications, days_old left at its default: delete the rows
\* created before the cutoff that are read or whose expires_at has passed
CleanupOldNotifications ==
    /\ UNCHANGED nonNotifVars
    /\ notif' = [n \in NotifIds |->
                    LET r == notif[n]
                    IN  IF /\ r.exists
                           /\ r.created_at < now - DefaultDaysOld * SecondsPerDay
                           /\ r.is_read \/ (r.expires_at # NULL /\ r.expires_at < now)
                        THEN [r EXCEPT !.exists = FALSE]
                        ELSE r]
    /\ UNCHANGED <<now, queued, transportCalls, lastResult>>

(***************************************************************************)
(* The public methods of the Notification object, called on a loaded row.  *)
(***************************************************************************)
MarkAsSent(n) ==
    /\ UNCHANGED nonNotifVars
    /\ notif[n].exists
    /\ notif' = [notif EXCEPT ![n] = mark_as_sent(@, now)]
    /\ UNCHANGED <<now, queued, transportCalls, lastResult>>

MarkAsDelivered(n) ==
    /\ UNCHANGED nonNotifVars
    /\ notif[n].exists
    /\ notif' = [notif EXCEPT ![n] = mark_as_delivered(@, now)]
    /\ UNCHANGED <<now, queued, transportCalls, lastResult>>

MarkAsRead(n) ==
    /\ UNCHANGED nonNotifVars
    /\ notif[n].exists
    /\ notif' = [notif EXCEPT ![n] = mark_as_read(@, now)]
    /\ UNCHANGED <<now, queued, transportCalls, lastResult>>

MarkAsFailed(n) ==
    /\ UNCHANGED nonNotifVars
    /\ notif[n].exists
    /\ notif[n].retry_count < notif[n].max_retries + MaxOverrun
    /\ notif' = [notif EXCEPT ![n] = mark_as_failed(@, "none", now)]
    /\ UNCHANGED <<now, queued, transportCalls, lastResult>>

Cancel(n) ==
    /\ UNCHANGED nonNotifVars
    /\ notif[n].exists
    /\ notif' = [notif EXCEPT ![n] = cancel(@)]
    /\ UNCHANGED <<now, queued, transportCalls, lastResult>>

(***************************************************************************)
(* Medication model (models/medication.py).  dosage_amount and quantities  *)
(* are whole numbers; get_daily_consumption is the exact fraction          *)
(* DailyNum/DailyDen; adherence_score is kept in hundredths of a percent   *)
(* (round(adherence, 2) * 100).  discontinued_at and notes, which nothing  *)
(* reads, are not kept.                                                    *)
(***************************************************************************)
Frequencies ==
    {"once_daily", "twice_daily", "three_times_daily", "four_times_daily",
     "as_needed", "weekly", "monthly", "custom"}

MedStatuses == {"active", "inactive", "discontinued", "completed", "on_hold"}

\* Python truthiness of a nullable number
Truthy(x) == x # NULL /\ x # 0

\* int(a / b) for b > 0: truncation toward zero
TruncDiv(a, b) == IF a >= 0 THEN a \div b ELSE 0 - ((0 - a) \div b)

\* frequency_map of get_daily_consumption, as numerator and denominator
FreqNum(f) ==
    CASE f = "twice_daily" -> 2
      [] f = "three_times_daily" -> 3
      [] f = "four_times_daily" -> 4
      [] OTHER -> 1

FreqDen(f) ==
    CASE f = "weekly" -> 7
      [] f = "monthly" -> 30
      [] f = "as_needed" -> 2
      [] OTHER -> 1

\* (self.dosage_amount or 1)
DoseOrOne(m) == IF Truthy(m.dosage_amount) THEN m.dosage_amount ELSE 1

\* get_daily_consumption = DailyNum / DailyDen
DailyNum(m) == DoseOrOne(m) * FreqNum(m.frequency)

DailyDen(m) == FreqDen(m.frequency)

\* Medication.days_supply_remaining
days_supply_remaining(m) ==
    IF Truthy(m.quantity_remaining) /\ Truthy(m.dosage_amount) /\ DailyNum(m) > 0
    THEN TruncDiv(m.quantity_remaining * DailyDen(m), DailyNum(m))
    ELSE 0

\* mutation: the refill date without the seven days of margin
calculate_next_refill_date_no_margin(m, t) ==
    IF Truthy(m.quantity_remaining) /\ Truthy(m.dosage_amount) /\ days_supply_remaining(m) > 7
    THEN [m EXCEPT !.next_refill_due = t + days_supply_remaining(m) * 86400]
    ELSE m

\* Medication.calculate_next_refill_date at time t
calculate_next_refill_date(m, t) ==
    IF Truthy(m.quantity_remaining) /\ Truthy(m.dosage_amount) /\ days_supply_remaining(m) > 7
    THEN [m EXCEPT !.next_refill_due = t + (days_supply_remaining(m) - 7) * 86400]
    ELSE m

\* Medication.record_dose_taken at time t
record_dose_taken(m, t) ==
    LET a == [m EXCEPT !.last_taken = t]
        b == IF Truthy(a.quantity_remaining)
             THEN [a EXCEPT !.quantity_remaining = @ - DoseOrOne(a)]
             ELSE a
    IN  calculate_next_refill_date(b, t)

\* mutation: the score without max(0, ...)
AdherenceHundredths_unclamped(m, days) ==
    LET d == days * DailyNum(m)
        x == d - m.missed_doses * DailyDen(m)
    IN  IF x <= 0 THEN 0 - ((2 * 10000 * (0 - x) + d) \div (2 * d)) ELSE (2 * 10000 * x + d) \div (2 * d)

\* round(max(0, (expected - missed) / expected * 100), 2) in hundredths,
\* expected = days * DailyNum / DailyDen
AdherenceHundredths(m, days) ==
    LET d == days * DailyNum(m)
        x == d - m.missed_doses * DailyDen(m)
    IN  IF x <= 0 THEN 0 ELSE (2 * 10000 * x + d) \div (2 * d)

\* mutation: a score of 100 when the score cannot be computed
update_adherence_score_default_100(m, t) ==
    IF m.start_date # NULL /\ (t - m.start_date) \div 86400 > 0
       /\ ((t - m.start_date) \div 86400) * DailyNum(m) > 0
    THEN [m EXCEPT !.adherence_score = AdherenceHundredths(m, (t - m.start_date) \div 86400)]
    ELSE [m EXCEPT !.adherence_score = 10000]

\* Medication.update_adherence_score at time t
update_adherence_score(m, t) ==
    IF m.start_date # NULL
    THEN LET days == (t - m.start_date) \div 86400 IN
         IF days > 0 /\ days * DailyNum(m) > 0
         THEN [m EXCEPT !.adherence_score = AdherenceHundredths(m, days)]
         ELSE m
    ELSE m

\* Medication.record_missed_dose at time t
record_missed_dose(m, t) ==
    update_adherence_score([m EXCEPT !.missed_doses = @ + 1], t)

\* Medication.add_refill at time t
add_refill(m, quantity, refills, t) ==
    calculate_next_refill_date(
        [m EXCEPT !.quantity_remaining = (IF Truthy(@) THEN @ ELSE 0) + quantity,
                  !.refills_remaining = refills,
                  !.last_refill_date = t], t)

\* Medication.discontinue at time t
discontinue(m, t) == [m EXCEPT !.status = "discontinued"]

\* hours_since_last = total_seconds() / 3600
SecondsPerHour == 3600

\* mutation: the table without its WEEKLY entry, which then takes the
\* default of frequency_hours.get()
FrequencyHours_without_weekly(f) ==
    CASE f = "once_daily" -> 24
      [] f = "twice_daily" -> 12
      [] f = "three_times_daily" -> 8
      [] f = "four_times_daily" -> 6
      [] f = "monthly" -> 720
      [] f = "as_needed" -> 4
      [] OTHER -> 24


\* frequency_hours of is_time_for_dose
FrequencyHours(f) ==
    CASE f = "once_daily" -> 24
      [] f = "twice_daily" -> 12
      [] f = "three_times_daily" -> 8
      [] f = "four_times_daily" -> 6
      [] f = "weekly" -> 168
      [] f = "monthly" -> 720
      [] f = "as_needed" -> 4
      [] OTHER -> 24

\* mutation: hours_since_last > required_interval
is_time_for_dose_strict(m, t) ==
    IF m.last_taken = NULL
    THEN TRUE
    ELSE t - m.last_taken > FrequencyHours(m.frequency) * SecondsPerHour

\* Medication.is_time_for_dose at time t
is_time_for_dose(m, t) ==
    IF m.last_taken = NULL
    THEN TRUE
    ELSE t - m.last_taken >= FrequencyHours(m.frequency) * SecondsPerHour

\* a medications row: the column defaults, and the columns that a create
\* request (frequency, dosage_amount, start_date) or an update request
\* (quantity_remaining) sets
NewMedication(frequency, dosage_amount, quantity, start_date) ==
    [status |-> "active",
     frequency |-> frequency,
     dosage_amount |-> dosage_amount,
     quantity_remaining |-> quantity,
     refills_remaining |-> 0,
     last_refill_date |-> NULL,
     next_refill_due |-> NULL,
     missed_doses |-> 0,
     last_taken |-> NULL,
     adherence_score |-> NULL,
     start_date |-> start_date]

(***************************************************************************)
(* Medication requests (api/v1/medications.py).                            *)
(***************************************************************************)
\* bounds of the medication model
MedTickSeconds == 43200
MaxMedTicks == 1
MaxMissed == 2
MaxQuantity == 9
MaxDeficit == 2

\* the clock advances by half a day
MedTick ==
    /\ now < StartTime + MaxMedTicks * MedTickSeconds
    /\ now' = now + MedTickSeconds
    /\ UNCHANGED <<notif, queued, transportCalls, lastResult, workers, med, medResponse>>
    /\ UNCHANGED <<doseDue, healthVars, batchVars>>

\* POST /{medication_id}/take-dose with taken_at in the request or not
RecordDoseTaken(taken_at) ==
    /\ med.quantity_remaining = NULL \/ med.quantity_remaining > 0 - MaxDeficit
    /\ med' = LET m == record_dose_taken(med, now)
              IN  IF taken_at # NULL THEN [m EXCEPT !.last_taken = taken_at] ELSE m
    /\ medResponse' = "ok"
    /\ UNCHANGED <<now, notif, queued, transportCalls, lastResult, workers>>
    /\ UNCHANGED <<doseDue, healthVars, batchVars>>

\* POST /{medication_id}/missed-dose
RecordMissedDose ==
    /\ med.missed_doses < MaxMissed
    /\ med' = record_missed_dose(med, now)
    /\ medResponse' = "ok"
    /\ UNCHANGED <<now, notif, queued, transportCalls, lastResult, workers>>
    /\ UNCHANGED <<doseDue, healthVars, batchVars>>

\* POST /{medication_id}/refill with RefillRequest(quantity, refills)
AddRefill(quantity, refills) ==
    /\ med.quantity_remaining = NULL \/ med.quantity_remaining + quantity <= MaxQuantity
    /\ med.quantity_remaining = NULL \/ med.quantity_remaining + quantity >= 0 - MaxDeficit
    /\ med' = add_refill(med, quantity, refills, now)
    /\ medResponse' = "ok"
    /\ UNCHANGED <<now, notif, queued, transportCalls, lastResult, workers>>
    /\ UNCHANGED <<doseDue, healthVars, batchVars>>

\* POST /{medication_id}/discontinue
DiscontinueMedication ==
    /\ med' = discontinue(med, now)
    /\ medResponse' = "ok"
    /\ UNCHANGED <<now, notif, queued, transportCalls, lastResult, workers>>
    /\ UNCHANGED <<doseDue, healthVars, batchVars>>

\* PUT /{medication_id} with MedicationUpdate(status=s)
UpdateMedication(s) ==
    /\ med' = [med EXCEPT !.status = s]
    /\ medResponse' = "ok"
    /\ UNCHANGED <<now, notif, queued, transportCalls, lastResult, workers>>
    /\ UNCHANGED <<doseDue, healthVars, batchVars>>

\* update_medication_adherence_scores: update_adherence_score() on every
\* active medication
UpdateMedicationAdherenceScores ==
    /\ med' = IF med.status = "active" THEN update_adherence_score(med, now) ELSE med
    /\ UNCHANGED <<now, notif, queued, transportCalls, lastResult, workers, medResponse>>
    /\ UNCHANGED <<doseDue, healthVars, batchVars>>

\* self.calculate_next_refill_date(), as record_dose_taken and add_refill
\* call it
CalculateNextRefillDate ==
    /\ med' = calculate_next_refill_date(med, now)
    /\ UNCHANGED <<now, notif, queued, transportCalls, lastResult, workers, medResponse>>
    /\ UNCHANGED <<doseDue, healthVars, batchVars>>

\* hours the clock may advance while the due time of a dose is evaluated
MaxDoseHours == 721

\* the clock advances by an hour
DoseTick ==
    /\ now < StartTime + MaxDoseHours * SecondsPerHour
    /\ now' = now + SecondsPerHour
    /\ UNCHANGED <<notif, queued, transportCalls, lastResult, workers, med, medResponse>>
    /\ UNCHANGED <<doseDue, healthVars, batchVars>>

\* medication.is_time_for_dose(), as send_medication_reminders and the
\* take-dose response call it
IsTimeForDose ==
    /\ doseDue' = IF is_time_for_dose(med, now) THEN "true" ELSE "false"
    /\ UNCHANGED <<now, notif, queued, transportCalls, lastResult, workers, med, medResponse>>
    /\ UNCHANGED <<healthVars, batchVars>>

\* the medication of the specifications that are about notifications
MedParked ==
    /\ med = NewMedication("once_daily", 1, 0, StartTime)
    /\ medResponse = "none"
    /\ doseDue = "none"

(***************************************************************************)
(* Health-alert scan (models/health_record.py, check_health_alerts of      *)
(* tasks/scheduled_tasks.py).  temperature, oxygen_saturation and          *)
(* blood_sugar are whole numbers.                                          *)
(***************************************************************************)
\* a health_records row, with what the scan reads of its patient: whether
\* record.patient and patient.user exist, and patient.primary_physician
NewHealthRecord(sy, di, hr, te, ox, su, recorded_at, has_user, has_physician) ==
    [systolic_bp |-> sy,
     diastolic_bp |-> di,
     heart_rate |-> hr,
     temperature |-> te,
     oxygen_saturation |-> ox,
     blood_sugar |-> su,
     anomaly_detected |-> FALSE,
     recorded_at |-> recorded_at,
     has_user |-> has_user,
     has_physician |-> has_physician]

\* HealthRecord.is_critical
is_critical(r) ==
    \/ Truthy(r.systolic_bp) /\ (r.systolic_bp > 180 \/ r.systolic_bp < 90)
    \/ Truthy(r.diastolic_bp) /\ (r.diastolic_bp > 120 \/ r.diastolic_bp < 60)
    \/ Truthy(r.heart_rate) /\ (r.heart_rate > 120 \/ r.heart_rate < 50)
    \/ Truthy(r.temperature) /\ (r.temperature > 103 \/ r.temperature < 95)
    \/ Truthy(r.oxygen_saturation) /\ r.oxygen_saturation < 90
    \/ Truthy(r.blood_sugar) /\ (r.blood_sugar > 400 \/ r.blood_sugar < 70)

Alert(type, priority) == [type |-> type, priority |-> priority]

\* the alerts list check_health_alerts builds for a record, in order
BuildAlerts(r) ==
    (IF is_critical(r) THEN <<Alert("critical_vitals", "critical")>> ELSE <<>>)
    \o (IF Truthy(r.systolic_bp) /\ Truthy(r.diastolic_bp)
        THEN IF r.systolic_bp > 180 \/ r.diastolic_bp > 120
             THEN <<Alert("hypertensive_crisis", "critical")>>
             ELSE IF r.systolic_bp > 160 \/ r.diastolic_bp > 100
             THEN <<Alert("severe_hypertension", "high")>>
             ELSE <<>>
        ELSE <<>>)
    \o (IF Truthy(r.heart_rate)
        THEN IF r.heart_rate > 120
             THEN <<Alert("tachycardia", "high")>>
             ELSE IF r.heart_rate < 50
             THEN <<Alert("bradycardia", "high")>>
             ELSE <<>>
        ELSE <<>>)
    \o (IF Truthy(r.oxygen_saturation) /\ r.oxygen_saturation < 90
        THEN <<Alert("hypoxemia", "critical")>>
        ELSE <<>>)
    \o (IF Truthy(r.blood_sugar)
        THEN IF r.blood_sugar > 400
             THEN <<Alert("severe_hyperglycemia", "critical")>>
             ELSE IF r.blood_sugar < 70
             THEN <<Alert("hypoglycemia", "high")>>
             ELSE <<>>
        ELSE <<>>)

\* the module with NotificationPriority among the names it imports
NotificationPriorityBound_imported == TRUE

\* whether the name NotificationPriority is bound in tasks/scheduled_tasks.py:
\* the module imports Notification, NotificationStatus and NotificationType
\* only, so getattr(NotificationPriority, ...) raises NameError
NotificationPriorityBound == FALSE

\* Notification.create_health_alert, as the insert leaves the row
create_health_alert(user, alert, t) ==
    [user |-> user,
     alert |-> alert.type,
     priority |-> alert.priority,
     channel |-> "in_app",
     status |-> "pending",
     scheduled_for |-> t]

\* the notifications the loop over alerts adds: one for the patient and,
\* with a primary physician, one for the physician, per alert
RECURSIVE AlertNotifications(_, _, _)
AlertNotifications(as, has_physician, t) ==
    IF as = <<>>
    THEN <<>>
    ELSE <<create_health_alert("patient", Head(as), t)>>
         \o (IF has_physician THEN <<create_health_alert("physician", Head(as), t)>> ELSE <<>>)
         \o AlertNotifications(Tail(as), has_physician, t)

\* recent_cutoff = now - timedelta(hours=2)
RecentSeconds == 2 * SecondsPerHour

\* the rows the scan's query selects
RecentUnprocessed(r, t) == r.recorded_at >= t - RecentSeconds /\ r.anomaly_detected = FALSE

\* check_health_alerts runs followed
MaxScans == 2

\* check_health_alerts with the error raised one call later: the patient's
\* notification for the first alert is in the session when the pass is
\* abandoned, and the commit after the loop writes it
CheckHealthAlerts_error_after_add ==
    /\ Len(scanLog) < MaxScans
    /\ IF ~RecentUnprocessed(record, now)
       THEN /\ scanLog' = Append(scanLog, "not_selected")
            /\ UNCHANGED <<record, alerts, healthNotifs>>
       ELSE IF ~record.has_user
       THEN /\ scanLog' = Append(scanLog, "no_user")
            /\ UNCHANGED <<record, alerts, healthNotifs>>
       ELSE LET built == BuildAlerts(record) IN
            /\ alerts' = built
            /\ IF built # <<>> /\ ~NotificationPriorityBound
               THEN /\ scanLog' = Append(scanLog, "error")
                    /\ healthNotifs' = Append(healthNotifs, create_health_alert("patient", Head(built), now))
                    /\ UNCHANGED record
               ELSE /\ healthNotifs' = healthNotifs \o AlertNotifications(built, record.has_physician, now)
                    /\ record' = [record EXCEPT !.anomaly_detected = (Len(built) > 0)]
                    /\ scanLog' = Append(scanLog, "evaluated")
    /\ UNCHANGED <<now, notif, queued, transportCalls, lastResult, workers, med, medResponse, doseDue>>
    /\ UNCHANGED <<scans, batchVars>>

\* check_health_alerts: one run of the task
CheckHealthAlerts ==
    /\ Len(scanLog) < MaxScans
    /\ IF ~RecentUnprocessed(record, now)
       THEN /\ scanLog' = Append(scanLog, "not_selected")
            /\ UNCHANGED <<record, alerts, healthNotifs>>
       ELSE IF ~record.has_user
       THEN /\ scanLog' = Append(scanLog, "no_user")
            /\ UNCHANGED <<record, alerts, healthNotifs>>
       ELSE LET built == BuildAlerts(record) IN
            /\ alerts' = built
            /\ IF built # <<>> /\ ~NotificationPriorityBound
               THEN /\ scanLog' = Append(scanLog, "error")
                    /\ UNCHANGED <<record, healthNotifs>>
               ELSE /\ healthNotifs' = healthNotifs \o AlertNotifications(built, record.has_physician, now)
                    /\ record' = [record EXCEPT !.anomaly_detected = (Len(built) > 0)]
                    /\ scanLog' = Append(scanLog, "evaluated")
    /\ UNCHANGED <<now, notif, queued, transportCalls, lastResult, workers, med, medResponse, doseDue>>
    /\ UNCHANGED <<scans, batchVars>>

\* the clock advances between scans
HealthTick ==
    /\ now < EndTime
    /\ now' = now + TickSeconds
    /\ UNCHANGED <<notif, queued, transportCalls, lastResult, workers, med, medResponse>>
    /\ UNCHANGED <<doseDue, healthVars, batchVars>>

\* the executions of check_health_alerts that may overlap: celery beat
\* sends the task every ten minutes and nothing keeps two workers from
\* running it at once
Scanners == {1, 2}

\* an execution that has not started; rows is what its query returned
IdleScan == [pc |-> "idle", rows |-> <<>>, overlaps |-> FALSE]

ScansIdle == scans = [s \in Scanners |-> IdleScan]

\* what one pass of the loop body does with a loaded row: the outcome, the
\* notifications it adds to the session and whether it sets anomaly_detected
ProcessRecord(r, t) ==
    IF ~r.has_user
    THEN [log |-> "no_user", added |-> <<>>, marks |-> FALSE]
    ELSE IF BuildAlerts(r) # <<>> /\ ~NotificationPriorityBound
    THEN [log |-> "error", added |-> <<>>, marks |-> FALSE]
    ELSE [log |-> "evaluated",
          added |-> AlertNotifications(BuildAlerts(r), r.has_physician, t),
          marks |-> Len(BuildAlerts(r)) > 0]

\* check_health_alerts up to and including the query: the execution holds
\* the rows it selected in its own session
ScanLoad(s) ==
    /\ scans[s].pc # "loaded"
    /\ Len(scanLog) + Cardinality({x \in Scanners : scans[x].pc = "loaded"}) < MaxScans
    /\ scans' = [scans EXCEPT ![s] =
                    [pc |-> "loaded",
                     rows |-> IF RecentUnprocessed(record, now) THEN <<record>> ELSE <<>>,
                     overlaps |-> \E x \in Scanners \ {s} : scans[x].pc = "loaded"]]
    /\ UNCHANGED <<now, notif, queued, transportCalls, lastResult, workers, med, medResponse, doseDue>>
    /\ UNCHANGED <<record, alerts, healthNotifs, scanLog, batchVars>>

\* check_health_alerts from the loop to db.commit(): the rows are processed
\* as they were loaded, and the commit writes the added notifications and
\* the changed anomaly_detected
ScanCommit(s) ==
    /\ scans[s].pc = "loaded"
    /\ scans' = [scans EXCEPT ![s].pc = "done"]
    /\ IF scans[s].rows = <<>>
       THEN /\ scanLog' = Append(scanLog, "not_selected")
            /\ UNCHANGED <<record, alerts, healthNotifs>>
       ELSE LET done == ProcessRecord(scans[s].rows[1], now) IN
            /\ scanLog' = Append(scanLog, done.log)
            /\ healthNotifs' = healthNotifs \o done.added
            /\ record' = IF done.marks THEN [record EXCEPT !.anomaly_detected = TRUE] ELSE record
            /\ alerts' = IF done.log = "no_user" THEN alerts ELSE BuildAlerts(scans[s].rows[1])
    /\ UNCHANGED <<now, notif, queued, transportCalls, lastResult, workers, med, medResponse, doseDue>>
    /\ UNCHANGED batchVars

\* the health record of the specifications that are not about the scan
HealthParked ==
    /\ record = NewHealthRecord(120, 80, 80, 98, 97, 100, StartTime, TRUE, FALSE)
    /\ alerts = <<>>
    /\ healthNotifs = <<>>
    /\ scanLog = <<>>
    /\ ScansIdle

(***************************************************************************)
(* The scheduled runs over medications and prescriptions                   *)
(* (send_medication_reminders and check_prescription_refills of            *)
(* tasks/scheduled_tasks.py).  An item of the batch is a medications row   *)
(* with what the runs read of its patient and of its prescription.         *)
(***************************************************************************)
MedIds == {1, 2}

\* bounds of the runs: seconds per tick, ticks, and runs followed
ReminderTickSeconds == 900
MaxReminderTicks == 2
MaxRuns == 2

\* a prescriptions row: the columns the refill query reads
NewPrescription(status, refills_remaining, next_fill_date) ==
    [status |-> status, refills_remaining |-> refills_remaining, next_fill_date |-> next_fill_date]

\* a medication with prescription_id null
NoPrescription == NewPrescription("none", 0, NULL)

\* a medication, whether medication.patient.user exists, and medication.prescription
Item(medication, has_user, prescription) ==
    [medication |-> medication, has_user |-> has_user, prescription |-> prescription]

\* scheduled_for = datetime.now() + timedelta(minutes=5)
ReminderDelay == 300
\* expires_at = scheduled_for + timedelta(hours=2)
ReminderLifetime == 2 * SecondsPerHour

\* Notification.create_medication_reminder(user_id, medication_id) at time
\* t, as the insert leaves the row
create_medication_reminder(medication_id, t) ==
    [notification_type |-> "medication_reminder",
     medication_id |-> medication_id,
     status |-> "pending",
     channel |-> "in_app",
     scheduled_for |-> t + ReminderDelay,
     expires_at |-> t + ReminderDelay + ReminderLifetime]

\* the Notification(...) check_prescription_refills builds for the
\* prescription of item id, as the insert leaves the row
RefillReminder(id) ==
    [notification_type |-> "refill_reminder",
     medication_id |-> id,
     status |-> "pending",
     channel |-> "in_app",
     scheduled_for |-> NULL,
     expires_at |-> NULL]

\* where the body of the loop can raise for an item: nowhere, in
\* is_time_for_dose(), or in send_medication_reminder_email.delay(), which
\* runs after db.add(notification)
ItemErrors == {"none", "is_time_for_dose", "delay"}

\* mutation: a run that skips a medication it has reminded before
ReminderOutcome_once(id, err, t) ==
    LET i == meds[id] IN
    IF i.medication.status # "active" THEN "not_selected"
    ELSE IF err = "is_time_for_dose" THEN "error"
    ELSE IF ~is_time_for_dose(i.medication, t) THEN "not_due"
    ELSE IF ~i.has_user THEN "no_user"
    ELSE IF \E k \in 1..Len(reminders) : reminders[k].medication_id = id THEN "not_due"
    ELSE IF err = "delay" THEN "error_after_add"
    ELSE "created"

\* what one pass of the loop of send_medication_reminders does with item id
ReminderOutcome(id, err, t) ==
    LET i == meds[id] IN
    IF i.medication.status # "active" THEN "not_selected"
    ELSE IF err = "is_time_for_dose" THEN "error"
    ELSE IF ~is_time_for_dose(i.medication, t) THEN "not_due"
    ELSE IF ~i.has_user THEN "no_user"
    ELSE IF err = "delay" THEN "error_after_add"
    ELSE "created"

\* the notifications the passes over items k, k+1, ... add to the session
RECURSIVE RemindersFrom(_, _, _)
RemindersFrom(k, errs, t) ==
    IF k \notin MedIds
    THEN <<>>
    ELSE (IF ReminderOutcome(k, errs[k], t) \in {"created", "error_after_add"}
          THEN <<create_medication_reminder(k, t)>>
          ELSE <<>>)
         \o RemindersFrom(k + 1, errs, t)

\* mutation: a loop without the try/except around its body
CommittedReminders_abort_on_error(errs, t) ==
    IF \E k \in MedIds : ReminderOutcome(k, errs[k], t) \in {"error", "error_after_add"}
    THEN <<>>
    ELSE RemindersFrom(1, errs, t)

\* what db.commit() after the loop writes: the except of each pass logs
\* the error and the loop goes on
CommittedReminders(errs, t) == RemindersFrom(1, errs, t)

\* send_medication_reminders: one run of the task
SendMedicationReminders(errs) ==
    /\ Len(runLog) < MaxRuns
    /\ reminders' = reminders \o CommittedReminders(errs, now)
    /\ runLog' = Append(runLog, [id \in MedIds |-> ReminderOutcome(id, errs[id], now)])
    /\ UNCHANGED <<now, notif, queued, transportCalls, lastResult, workers, med, medResponse>>
    /\ UNCHANGED <<doseDue, healthVars, meds>>

\* the rows the query of check_prescription_refills selects
DuePrescription(p, t) ==
    /\ p.status = "active"
    /\ p.refills_remaining > 0
    /\ p.next_fill_date # NULL /\ p.next_fill_date <= t

\* what one pass of the loop of check_prescription_refills does with the
\* prescription of item id
RefillOutcome(id, t) ==
    LET i == meds[id] IN
    IF ~DuePrescription(i.prescription, t) THEN "not_selected"
    ELSE IF ~i.has_user THEN "no_user"
    ELSE IF ~NotificationPriorityBound THEN "error"
    ELSE "created"

RECURSIVE RefillRemindersFrom(_, _)
RefillRemindersFrom(k, t) ==
    IF k \notin MedIds
    THEN <<>>
    ELSE (IF RefillOutcome(k, t) = "created" THEN <<RefillReminder(k)>> ELSE <<>>)
         \o RefillRemindersFrom(k + 1, t)

\* check_prescription_refills: one run of the task
CheckPrescriptionRefills ==
    /\ Len(runLog) < MaxRuns
    /\ reminders' = reminders \o RefillRemindersFrom(1, now)
    /\ runLog' = Append(runLog, [id \in MedIds |-> RefillOutcome(id, now)])
    /\ UNCHANGED <<now, notif, queued, transportCalls, lastResult, workers, med, medResponse>>
    /\ UNCHANGED <<doseDue, healthVars, meds>>

\* the clock advances between runs
ReminderTick ==
    /\ now < StartTime + MaxReminderTicks * ReminderTickSeconds
    /\ now' = now + ReminderTickSeconds
    /\ UNCHANGED <<notif, queued, transportCalls, lastResult, workers, med, medResponse>>
    /\ UNCHANGED <<doseDue, healthVars, batchVars>>

\* POST /{medication_id}/take-dose for a medication of the batch, with
\* taken_at in the request or not
RecordDoseTakenOn(id, taken_at) ==
    /\ meds' = [meds EXCEPT ![id].medication =
                    LET m == record_dose_taken(@, now)
                    IN  IF taken_at # NULL THEN [m EXCEPT !.last_taken = taken_at] ELSE m]
    /\ UNCHANGED <<now, notif, queued, transportCalls, lastResult, workers, med, medResponse>>
    /\ UNCHANGED <<doseDue, healthVars, reminders, runLog>>

\* the batch of the specifications that are not about these runs
BatchParked ==
    /\ meds = [id \in MedIds |-> Item(NewMedication("once_daily", 1, 0, StartTime), TRUE, NoPrescription)]
    /\ reminders = <<>>
    /\ runLog = <<>>

(***************************************************************************)
(* send_notification run by concurrent Celery workers.  Each execution     *)
(* loads the row into its own session, calls the transport, then commits   *)
(* the columns it changed; nothing locks the row in between.               *)
(***************************************************************************)
Workers == {"w1", "w2"}

NoOutcome == [called |-> FALSE, success |-> FALSE, reason |-> "none"]

IdleWorker == [pc |-> "idle", id |-> 0, row |-> NewNotification("email", NULL, NULL, 0), out |-> NoOutcome]

\* lines 25-40: load the row, return early when it is not pending or is expired
WorkerLoad(w, n) ==
    /\ workers[w].pc = "idle"
    /\ queued[n] > 0
    /\ queued' = [queued EXCEPT ![n] = @ - 1]
    /\ UNCHANGED <<now, transportCalls, med, medResponse>>
    /\ UNCHANGED <<doseDue, healthVars, batchVars>>
    /\ LET r == notif[n] IN
       IF ~r.exists
       THEN /\ lastResult' = [lastResult EXCEPT ![n] = "failed"]
            /\ UNCHANGED <<notif, workers>>
       ELSE IF r.status # "pending"
       THEN /\ lastResult' = [lastResult EXCEPT ![n] = "skipped"]
            /\ UNCHANGED <<notif, workers>>
       ELSE IF expired_on_dispatch(r, now)
       THEN /\ notif' = [notif EXCEPT ![n].status = "cancelled"]
            /\ lastResult' = [lastResult EXCEPT ![n] = "expired"]
            /\ UNCHANGED workers
       ELSE /\ workers' = [workers EXCEPT ![w] = [pc |-> "loaded", id |-> n, row |-> r, out |-> NoOutcome]]
            /\ UNCHANGED <<notif, lastResult>>

\* lines 42-55: the channel branch calls the transport
WorkerCallTransport(w) ==
    /\ workers[w].pc = "loaded"
    /\ transportCalls[workers[w].id] < MaxTransportCalls
    /\ \E o \in Delivery(workers[w].row.channel) :
        /\ workers' = [workers EXCEPT ![w].pc = "called", ![w].out = o]
        /\ transportCalls' = [transportCalls EXCEPT ![workers[w].id] = @ + (IF o.called THEN 1 ELSE 0)]
    /\ UNCHANGED <<now, notif, queued, lastResult, med, medResponse>>
    /\ UNCHANGED <<doseDue, healthVars, batchVars>>

\* lines 57-66: set the outcome on the loaded object and commit the changed columns
WorkerCommit(w) ==
    /\ workers[w].pc = "called"
    /\ LET n == workers[w].id
           r == workers[w].row
           o == workers[w].out
           f == mark_as_failed(r, o.reason, now)
       IN  /\ notif[n].exists
           /\ IF o.success
              THEN /\ notif' = [notif EXCEPT ![n].status = "sent", ![n].sent_at = now]
                   /\ lastResult' = [lastResult EXCEPT ![n] = "success"]
              ELSE /\ notif' = [notif EXCEPT ![n].status = f.status,
                                              ![n].failed_at = f.failed_at,
                                              ![n].failure_reason = f.failure_reason,
                                              ![n].retry_count = f.retry_count,
                                              ![n].next_retry_at =
                                                  IF f.next_retry_at # r.next_retry_at
                                                  THEN f.next_retry_at ELSE @]
                   /\ lastResult' = [lastResult EXCEPT ![n] = "failed"]
    /\ workers' = [workers EXCEPT ![w] = IdleWorker]
    /\ UNCHANGED <<now, queued, transportCalls, med, medResponse>>
    /\ UNCHANGED <<doseDue, healthVars, batchVars>>

(***************************************************************************)
(* Spec: the notification lifecycle as the tasks drive it, every task      *)
(* atomic.                                                                 *)
(***************************************************************************)
ScheduledForValues == {NULL, StartTime + TickSeconds}

ExpiresAtValues == {NULL, StartTime + TickSeconds}

CreatedAtValues == {0, StartTime}

NotifInit ==
    /\ now = StartTime
    /\ notif \in [NotifIds -> {NewNotification(c, s, e, t) :
                                  c \in Channels, s \in ScheduledForValues,
                                  e \in ExpiresAtValues, t \in CreatedAtValues}]
    /\ queued = [n \in NotifIds |-> 0]
    /\ transportCalls = [n \in NotifIds |-> 0]
    /\ lastResult = [n \in NotifIds |-> "none"]

WorkersIdle == workers = [w \in Workers |-> IdleWorker]

Init == NotifInit /\ WorkersIdle /\ MedParked /\ HealthParked /\ BatchParked

Next ==
    \/ Tick
    \/ ProcessNotificationQueue
    \/ RetryFailedNotifications
    \/ CleanupExpiredNotifications
    \/ \E n \in NotifIds : Dispatch(n)
    \/ \E n \in NotifIds, s \in ReportedStatuses : UpdateNotificationDeliveryStatus(n, s)

Spec == Init /\ [][Next]_vars

(***************************************************************************)
(* SpecApi: the tasks, and the Notification methods called directly on a   *)
(* row by a caller of the model.                                           *)
(***************************************************************************)
NextApi ==
    \/ Next
    \/ \E n \in NotifIds : MarkAsSent(n)
    \/ \E n \in NotifIds : MarkAsDelivered(n)
    \/ \E n \in NotifIds : MarkAsRead(n)
    \/ \E n \in NotifIds : MarkAsFailed(n)
    \/ \E n \in NotifIds : Cancel(n)

SpecApi == Init /\ [][NextApi]_vars

(***************************************************************************)
(* SpecRace: the queue and retry runs with two workers executing           *)
(* send_notification concurrently.                                         *)
(***************************************************************************)
RaceInit ==
    /\ now = StartTime
    /\ notif \in [NotifIds -> {NewNotification(c, NULL, e, StartTime) :
                                  c \in Channels, e \in ExpiresAtValues}]
    /\ queued = [n \in NotifIds |-> 0]
    /\ transportCalls = [n \in NotifIds |-> 0]
    /\ lastResult = [n \in NotifIds |-> "none"]
    /\ WorkersIdle
    /\ MedParked
    /\ HealthParked
    /\ BatchParked

NextRace ==
    \/ Tick
    \/ ProcessNotificationQueue
    \/ RetryFailedNotifications
    \/ \E w \in Workers, n \in NotifIds : WorkerLoad(w, n)
    \/ \E w \in Workers : WorkerCallTransport(w)
    \/ \E w \in Workers : WorkerCommit(w)

SpecRace == RaceInit /\ [][NextRace]_vars

(***************************************************************************)
(* SpecBackoff: mark_as_failed called again and again on one notification  *)
(* whose max_retries leaves room for the whole backoff sequence.           *)
(***************************************************************************)
\* a max_retries above the number of calls it takes to reach the cap
BackoffMaxRetries == 7

BackoffInit ==
    /\ now = StartTime
    /\ notif \in [NotifIds -> {[NewNotification(c, NULL, NULL, StartTime) EXCEPT !.max_retries = m] :
                                  c \in {"email", "sms"}, m \in {DefaultMaxRetries, BackoffMaxRetries}}]
    /\ queued = [n \in NotifIds |-> 0]
    /\ transportCalls = [n \in NotifIds |-> 0]
    /\ lastResult = [n \in NotifIds |-> "none"]
    /\ WorkersIdle
    /\ MedParked
    /\ HealthParked
    /\ BatchParked

NextBackoff ==
    \/ Tick
    \/ \E n \in NotifIds : MarkAsFailed(n)

SpecBackoff == BackoffInit /\ [][NextBackoff]_vars

(***************************************************************************)
(* SpecScenario3: a pending email notification with the default            *)
(* max_retries whose transport fails on every attempt, under queue runs,   *)
(* retry runs and workers that keep running.                               *)
(***************************************************************************)
\* the clock advances for as long as a retry is still to become due
TickToRetry ==
    /\ \/ now < EndTime
       \/ \E n \in NotifIds : notif[n].next_retry_at # NULL /\ notif[n].next_retry_at > now
    /\ now' = now + TickSeconds
    /\ UNCHANGED <<notif, queued, transportCalls, lastResult, workers, med, medResponse>>
    /\ UNCHANGED <<doseDue, healthVars, batchVars>>

\* a worker runs a queued send_notification task and the transport fails
FailingDispatch(n) == SendNotificationWith(n, [c \in Channels |-> FailingDelivery(c)])

Scenario3Init ==
    /\ now = StartTime
    /\ notif \in [NotifIds -> {NewNotification("email", s, NULL, c) :
                                  s \in ScheduledForValues, c \in CreatedAtValues}]
    /\ queued = [n \in NotifIds |-> 0]
    /\ transportCalls = [n \in NotifIds |-> 0]
    /\ lastResult = [n \in NotifIds |-> "none"]
    /\ WorkersIdle
    /\ MedParked
    /\ HealthParked
    /\ BatchParked

NextScenario3 ==
    \/ TickToRetry
    \/ ProcessNotificationQueue
    \/ RetryFailedNotifications
    \/ \E n \in NotifIds : FailingDispatch(n)

SpecScenario3 ==
    /\ Scenario3Init
    /\ [][NextScenario3]_vars
    /\ WF_vars(TickToRetry)
    /\ WF_vars(ProcessNotificationQueue)
    /\ WF_vars(RetryFailedNotifications)
    /\ \A n \in NotifIds : WF_vars(FailingDispatch(n))

(***************************************************************************)
(* SpecMed: one medication under the dose, refill, discontinue and update  *)
(* requests.                                                               *)
(***************************************************************************)
DosageValues == {NULL, 1, 2}

\* quantity_remaining is null after create_medication and whatever
\* MedicationUpdate.quantity_remaining carried after update_medication
QuantityValues == {NULL, 0, 1, 9}

StartDateValues == {StartTime, StartTime - 2 * 86400}

TakenAtValues == {NULL, StartTime}

RefillQuantities == {0 - 1, 0, 8}

RefillCounts == {2}

MedInit ==
    /\ now = StartTime
    /\ med \in {NewMedication(f, d, q, t) :
                    f \in Frequencies, d \in DosageValues,
                    q \in QuantityValues, t \in StartDateValues}
    /\ medResponse = "none"
    /\ doseDue = "none"
    /\ HealthParked
    /\ BatchParked
    /\ notif = [n \in NotifIds |-> NewNotification("in_app", NULL, NULL, StartTime)]
    /\ queued = [n \in NotifIds |-> 0]
    /\ transportCalls = [n \in NotifIds |-> 0]
    /\ lastResult = [n \in NotifIds |-> "none"]
    /\ WorkersIdle

NextMed ==
    \/ MedTick
    \/ \E t \in TakenAtValues : RecordDoseTaken(t)
    \/ RecordMissedDose
    \/ \E q \in RefillQuantities, r \in RefillCounts : AddRefill(q, r)
    \/ DiscontinueMedication
    \/ \E s \in MedStatuses : UpdateMedication(s)

SpecMed == MedInit /\ [][NextMed]_vars

(***************************************************************************)
(* SpecDoseDue: is_time_for_dose evaluated as the clock moves away from    *)
(* last_taken, for every frequency.                                        *)
(***************************************************************************)
\* last_taken: never, an instant before, at, or an instant after the start
LastTakenValues == {NULL, StartTime - 1, StartTime, StartTime + 1}

DoseDueInit ==
    /\ now = StartTime
    /\ med \in {[NewMedication(f, 1, NULL, StartTime) EXCEPT !.last_taken = l] :
                    f \in Frequencies, l \in LastTakenValues}
    /\ medResponse = "none"
    /\ doseDue = "none"
    /\ notif = [n \in NotifIds |-> NewNotification("in_app", NULL, NULL, StartTime)]
    /\ queued = [n \in NotifIds |-> 0]
    /\ transportCalls = [n \in NotifIds |-> 0]
    /\ lastResult = [n \in NotifIds |-> "none"]
    /\ WorkersIdle
    /\ HealthParked
    /\ BatchParked

NextDoseDue ==
    \/ DoseTick
    \/ IsTimeForDose

SpecDoseDue == DoseDueInit /\ [][NextDoseDue]_vars

(***************************************************************************)
(* SpecRefillDate: calculate_next_refill_date over supplies around the     *)
(* seven-day margin.                                                       *)
(***************************************************************************)
SupplyValues == {NULL, 0, 7, 8, 10, 15, 16, 20}

\* next_refill_due before the call: never set, or set by an earlier call
NextRefillDueValues == {NULL, StartTime - 86400}

RefillDateInit ==
    /\ now = StartTime
    /\ med \in {[NewMedication(f, d, q, StartTime) EXCEPT !.next_refill_due = n] :
                    f \in Frequencies, d \in DosageValues,
                    q \in SupplyValues, n \in NextRefillDueValues}
    /\ medResponse = "none"
    /\ doseDue = "none"
    /\ notif = [n \in NotifIds |-> NewNotification("in_app", NULL, NULL, StartTime)]
    /\ queued = [n \in NotifIds |-> 0]
    /\ transportCalls = [n \in NotifIds |-> 0]
    /\ lastResult = [n \in NotifIds |-> "none"]
    /\ WorkersIdle
    /\ HealthParked
    /\ BatchParked

NextRefillDate ==
    \/ MedTick
    \/ CalculateNextRefillDate

SpecRefillDate == RefillDateInit /\ [][NextRefillDate]_vars

(***************************************************************************)
(* SpecAdherence: the adherence score recomputed by the scheduled task and *)
(* by missed doses, around a start_date that is today, ahead or behind.    *)
(***************************************************************************)
\* dosage_amount: the values MedicationUpdate.dosage_amount can carry
AdherenceDosageValues == {NULL, 0 - 1, 1, 2}

\* start_date: now, tomorrow, two days ago, half a day short of a day ago
AdherenceStartValues ==
    {StartTime, StartTime + 86400, StartTime - 2 * 86400, StartTime - 86400 + MedTickSeconds}

\* adherence_score before the call: never computed, or 50.00
AdherenceScoreValues == {NULL, 5000}

AdherenceInit ==
    /\ now = StartTime
    /\ med \in {[NewMedication(f, d, NULL, t) EXCEPT !.adherence_score = a] :
                    f \in Frequencies, d \in AdherenceDosageValues,
                    t \in AdherenceStartValues, a \in AdherenceScoreValues}
    /\ medResponse = "none"
    /\ doseDue = "none"
    /\ notif = [n \in NotifIds |-> NewNotification("in_app", NULL, NULL, StartTime)]
    /\ queued = [n \in NotifIds |-> 0]
    /\ transportCalls = [n \in NotifIds |-> 0]
    /\ lastResult = [n \in NotifIds |-> "none"]
    /\ WorkersIdle
    /\ HealthParked
    /\ BatchParked

NextAdherence ==
    \/ MedTick
    \/ UpdateMedicationAdherenceScores
    \/ RecordMissedDose

SpecAdherence == AdherenceInit /\ [][NextAdherence]_vars

(***************************************************************************)
(* SpecHealth: check_health_alerts run again and again over one health     *)
(* record.                                                                 *)
(***************************************************************************)
SystolicValues == {NULL, 120, 170, 190}

DiastolicValues == {NULL, 80, 110, 130}

HeartRateValues == {NULL, 40, 80, 130}

TemperatureValues == {NULL, 98, 104}

OxygenValues == {NULL, 0, 85, 97}

SugarValues == {NULL, 0, 60, 100, 450}

\* recorded now, or two hours ago: at the cutoff now and behind it after a tick
RecordedAtValues == {StartTime, StartTime - RecentSeconds}

\* patient.user missing; a patient without and with a primary physician
PatientValues == {<<FALSE, FALSE>>, <<TRUE, FALSE>>, <<TRUE, TRUE>>}

HealthInit ==
    /\ now = StartTime
    /\ record \in {NewHealthRecord(sy, di, hr, te, ox, su, ra, pa[1], pa[2]) :
                       sy \in SystolicValues, di \in DiastolicValues, hr \in HeartRateValues,
                       te \in TemperatureValues, ox \in OxygenValues, su \in SugarValues,
                       ra \in RecordedAtValues, pa \in PatientValues}
    /\ alerts = <<>>
    /\ healthNotifs = <<>>
    /\ scanLog = <<>>
    /\ ScansIdle
    /\ notif = [n \in NotifIds |-> NewNotification("in_app", NULL, NULL, StartTime)]
    /\ queued = [n \in NotifIds |-> 0]
    /\ transportCalls = [n \in NotifIds |-> 0]
    /\ lastResult = [n \in NotifIds |-> "none"]
    /\ WorkersIdle
    /\ MedParked
    /\ BatchParked

NextHealth ==
    \/ HealthTick
    \/ CheckHealthAlerts

SpecHealth == HealthInit /\ [][NextHealth]_vars

(***************************************************************************)
(* Properties of the notification lifecycle.                               *)
(***************************************************************************)
RetryExhausted(n) ==
    /\ notif[n].status = "failed"
    /\ notif[n].retry_count = notif[n].max_retries

\* C1: under dispatch, markFailed, retry reset and delivery-status updates
\* retry_count never exceeds max_retries, and a notification that is failed
\* with retry_count = max_retries stays failed over every later retry run
\* and dispatch attempt.
C1_RetryBound ==
    /\ [](\A n \in NotifIds : notif[n].retry_count <= notif[n].max_retries)
    /\ [][\A n \in NotifIds :
            (RetryExhausted(n) /\ (RetryFailedNotifications \/ \E m \in NotifIds : SendNotification(m)))
                => RetryExhausted(n)']_vars

LegalTransitions ==
    {<<"pending", "sent">>, <<"pending", "failed">>, <<"pending", "cancelled">>,
     <<"sent", "delivered">>, <<"delivered", "read">>, <<"failed", "pending">>}

\* C2: every status change of a notification is one of pending->sent,
\* pending->failed, pending->cancelled, sent->delivered, delivered->read,
\* failed->pending.
C2_LegalTransitionsOnly ==
    [][\A n \in NotifIds :
          notif'[n].status # notif[n].status
              => <<notif[n].status, notif'[n].status>> \in LegalTransitions]_vars

\* C3: when two workers run dispatch on the same pending notification with
\* their steps interleaved, the transport is invoked at most once while the
\* notification is pending.
C3_SingleTransportCallWhilePending ==
    \A n \in NotifIds :
        notif[n].status = "pending" =>
            Cardinality({w \in Workers : workers[w].pc = "called" /\ workers[w].id = n
                                           /\ workers[w].out.called}) <= 1

\* C4: a notification whose expires_at is set never changes its status to
\* sent or delivered at a time later than expires_at.
C4_NoSentOrDeliveredAfterExpiry ==
    [][\A n \in NotifIds :
          (/\ notif[n].expires_at # NULL
           /\ notif'[n].status # notif[n].status
           /\ notif'[n].status \in {"sent", "delivered"})
              => ~(now > notif[n].expires_at)]_vars

\* C5: dispatch of a pending notification past its expires_at sets the
\* status to cancelled, returns 'expired' and does not invoke the transport;
\* dispatch of a notification that is not pending returns 'skipped' and
\* changes nothing.
C5_ExpiredCancelledNonPendingSkipped ==
    [][\A n \in NotifIds :
          (SendNotification(n) /\ notif[n].exists) =>
              /\ (notif[n].status = "pending" /\ is_expired(notif[n], now)) =>
                    /\ notif'[n] = [notif[n] EXCEPT !.status = "cancelled"]
                    /\ lastResult'[n] = "expired"
                    /\ transportCalls' = transportCalls
              /\ notif[n].status # "pending" =>
                    /\ notif' = notif
                    /\ lastResult'[n] = "skipped"
                    /\ transportCalls' = transportCalls]_vars

\* a dispatch has found the pending notification expired and cancelled it
C5_Witness ==
    \E n \in NotifIds :
        /\ lastResult[n] = "expired"
        /\ notif[n].status = "cancelled"
        /\ notif[n].expires_at # NULL /\ now > notif[n].expires_at
        /\ transportCalls[n] = 0

\* the delays the backoff is said to produce: 300, 600, 1200, 2400, 3600, 3600, ...
ClaimedDelay(k) == Min(300 * (2 ^ (k - 1)), 3600)

\* C6: the k-th consecutive markFailed call on a notification with retries
\* left sets next_retry_at to the failure time plus 300, 600, 1200, 2400,
\* 3600, 3600, ... seconds.
C6_BackoffSequence ==
    [][\A n \in NotifIds :
          (MarkAsFailed(n) /\ notif'[n].retry_count < notif[n].max_retries)
              => notif'[n].next_retry_at = now + ClaimedDelay(notif'[n].retry_count)]_vars

\* C7: a pending email notification with max_retries = 3 whose transport
\* always fails ends failed with retry_count = 3 after exactly three
\* transport attempts, and stays so.
C7_ThreeFailuresThenTerminal ==
    /\ [](\A n \in NotifIds : transportCalls[n] <= 3 /\ transportCalls[n] = notif[n].retry_count)
    /\ <>[](\A n \in NotifIds :
              /\ notif[n].status = "failed"
              /\ notif[n].retry_count = 3
              /\ notif[n].max_retries = 3
              /\ transportCalls[n] = 3)

\* the third transport failure has exhausted the retries
C7_Witness ==
    \E n \in NotifIds :
        /\ notif[n].channel = "email"
        /\ notif[n].status = "failed"
        /\ notif[n].retry_count = 3
        /\ transportCalls[n] = 3
        /\ lastResult[n] = "failed"

\* C8: markDelivered on a pending notification leaves it pending, so every
\* delivered notification has been sent before and has sent_at set.
C8_DeliveredOnlyAfterSent ==
    /\ [][\A n \in NotifIds :
            (notif[n].status = "pending" /\ (MarkAsDelivered(n)
                    \/ UpdateNotificationDeliveryStatus(n, "delivered")))
                => notif'[n].status = "pending"]_vars
    /\ [](\A n \in NotifIds : notif[n].status = "delivered" => notif[n].sent_at # NULL)

(***************************************************************************)
(* Properties of the medication model.                                     *)
(***************************************************************************)
\* C9: recordDoseTaken on a quantity_remaining >= 0 leaves it >= 0, and a
\* dose larger than the remaining quantity leaves it at 0.
C9_QuantityNeverNegative ==
    [][\A t \in TakenAtValues :
          (RecordDoseTaken(t) /\ med.quantity_remaining # NULL /\ med.quantity_remaining >= 0) =>
              /\ med'.quantity_remaining >= 0
              /\ DoseOrOne(med) > med.quantity_remaining => med'.quantity_remaining = 0]_vars

\* C10: on a medication whose status is not active, recordDoseTaken,
\* recordMissedDose and addRefill fail with an invalid-state error and leave
\* last_taken, quantity_remaining, refills_remaining, missed_doses and
\* next_refill_due unchanged.
C10_NonActiveRejected ==
    [][(/\ med.status # "active"
        /\ \/ \E t \in TakenAtValues : RecordDoseTaken(t)
           \/ RecordMissedDose
           \/ \E q \in RefillQuantities, r \in RefillCounts : AddRefill(q, r)) =>
            /\ medResponse' = "invalid_state"
            /\ med'.last_taken = med.last_taken
            /\ med'.quantity_remaining = med.quantity_remaining
            /\ med'.refills_remaining = med.refills_remaining
            /\ med'.missed_doses = med.missed_doses
            /\ med'.next_refill_due = med.next_refill_due]_vars

\* C11: once a medication is discontinued or completed, no operation
\* (discontinue again and the update request with a status field included)
\* puts it back to active, on-hold or inactive.
C11_NoResurrection ==
    [][med.status \in {"discontinued", "completed"}
          => med'.status \notin {"active", "on_hold", "inactive"}]_vars

\* the interval, in hours, each frequency is said to have
ClaimedIntervalHours(f) ==
    CASE f = "once_daily" -> 24
      [] f = "twice_daily" -> 12
      [] f = "three_times_daily" -> 8
      [] f = "four_times_daily" -> 6
      [] f = "weekly" -> 168
      [] f = "monthly" -> 720
      [] f = "as_needed" -> 4
      [] f = "custom" -> 24

\* C12 as stated: isDoseDue is true exactly when last_taken is null or the
\* time elapsed since last_taken exceeds the interval of the frequency, so
\* it is false at exactly the interval.
C12_DueWhenIntervalExceeded ==
    [][IsTimeForDose =>
          (doseDue' = "true" <=>
              (med.last_taken = NULL
               \/ now - med.last_taken > ClaimedIntervalHours(med.frequency) * 3600))]_vars

\* C12 amended: isDoseDue is true exactly when last_taken is null or the
\* time elapsed since last_taken is at least the interval of the frequency:
\* for once-daily false at 23 h, true at exactly 24 h and above.
C12_DueWhenIntervalReached ==
    [][IsTimeForDose =>
          (doseDue' = "true" <=>
              (med.last_taken = NULL
               \/ now - med.last_taken >= ClaimedIntervalHours(med.frequency) * 3600))]_vars

\* a once-daily dose found due exactly 24 hours after last_taken
C12_Witness ==
    /\ med.frequency = "once_daily"
    /\ med.last_taken # NULL
    /\ now - med.last_taken = 24 * 3600
    /\ doseDue = "true"

(***************************************************************************)
(* Properties of the health-alert scan.                                    *)
(***************************************************************************)
\* a run of the scan has evaluated the rules on the record
Evaluated(log) == \E i \in 1..Len(log) : log[i] \in {"evaluated", "error"}

\* C13: a health record that a scan has evaluated is marked as processed,
\* and every later run of the scan creates no further alert notification
\* for it, whether or not the first evaluation produced alerts.
C13_EvaluatedOnceThenSilent ==
    [][CheckHealthAlerts =>
          /\ (~Evaluated(scanLog) /\ Evaluated(scanLog')) => record'.anomaly_detected
          /\ Evaluated(scanLog) => healthNotifs' = healthNotifs]_vars

\* the composite is-critical band
ClaimedCritical(sy, di, hr, te, ox, su) ==
    \/ sy < 90 \/ sy > 180
    \/ di < 60 \/ di > 120
    \/ hr < 50 \/ hr > 120
    \/ te < 95 \/ te > 103
    \/ ox < 90
    \/ su < 70 \/ su > 400

\* the union of the rule rows whose condition holds, each row on its own
ClaimedAlerts(r) ==
    (IF r.systolic_bp > 180 \/ r.diastolic_bp > 120
     THEN {Alert("hypertensive_crisis", "critical")} ELSE {})
    \cup (IF r.systolic_bp > 160 \/ r.diastolic_bp > 100
          THEN {Alert("severe_hypertension", "high")} ELSE {})
    \cup (IF r.heart_rate > 120 THEN {Alert("tachycardia", "high")} ELSE {})
    \cup (IF r.heart_rate < 50 THEN {Alert("bradycardia", "high")} ELSE {})
    \cup (IF r.oxygen_saturation < 90 THEN {Alert("hypoxemia", "critical")} ELSE {})
    \cup (IF r.blood_sugar > 400 THEN {Alert("severe_hyperglycemia", "critical")} ELSE {})
    \cup (IF r.blood_sugar < 70 THEN {Alert("hypoglycemia", "high")} ELSE {})
    \cup (IF ClaimedCritical(r.systolic_bp, r.diastolic_bp, r.heart_rate, r.temperature,
                             r.oxygen_saturation, r.blood_sugar)
          THEN {Alert("critical_vitals", "critical")} ELSE {})

AllVitalsPresent(r) ==
    /\ r.systolic_bp # NULL /\ r.diastolic_bp # NULL /\ r.heart_rate # NULL
    /\ r.temperature # NULL /\ r.oxygen_saturation # NULL /\ r.blood_sugar # NULL

\* the scan step evaluates the rules on the record
EvaluatingStep ==
    CheckHealthAlerts /\ scanLog'[Len(scanLog')] \in {"evaluated", "error"}

\* C14: for a health record with all vitals present, the alerts the
\* evaluation produces are exactly the rule rows whose condition holds, each
\* row evaluated independently of the others.
C14_AlertsAreUnionOfRules ==
    [][(EvaluatingStep /\ AllVitalsPresent(record)) =>
          {alerts'[i] : i \in 1..Len(alerts')} = ClaimedAlerts(record)]_vars

\* a vital that is present, whatever its value
Present(v) == v # NULL

\* C15: a missing vital fires no rule and every rule over a vital that is
\* present fires exactly when its threshold is crossed: the blood-pressure
\* rows look at whichever of systolic and diastolic is present, and a
\* present value of 0 is evaluated as 0, not as missing.
C15_MissingSkippedPresentEvaluated ==
    [][EvaluatingStep =>
          LET r == record
              built == {alerts'[i].type : i \in 1..Len(alerts')}
          IN  /\ "hypertensive_crisis" \in built <=>
                    \/ Present(r.systolic_bp) /\ r.systolic_bp > 180
                    \/ Present(r.diastolic_bp) /\ r.diastolic_bp > 120
              /\ "tachycardia" \in built <=> (Present(r.heart_rate) /\ r.heart_rate > 120)
              /\ "bradycardia" \in built <=> (Present(r.heart_rate) /\ r.heart_rate < 50)
              /\ "hypoxemia" \in built <=>
                    (Present(r.oxygen_saturation) /\ r.oxygen_saturation < 90)
              /\ "severe_hyperglycemia" \in built <=>
                    (Present(r.blood_sugar) /\ r.blood_sugar > 400)
              /\ "hypoglycemia" \in built <=>
                    (Present(r.blood_sugar) /\ r.blood_sugar < 70)]_vars

\* systolic 190 with every other vital in the normal range
Scenario1Record(r) ==
    /\ r.systolic_bp = 190 /\ r.diastolic_bp = 80 /\ r.heart_rate = 80
    /\ r.temperature = 98 /\ r.oxygen_saturation = 97 /\ r.blood_sugar = 100

\* C16: one scan over a recent unprocessed record with systolic 190 of a
\* patient with a primary physician emits a critical hypertensive-crisis
\* alert and creates exactly two notifications, one for the patient and one
\* for the physician, both pending; without a physician exactly one.
C16_CrisisNotifiesPatientAndPhysician ==
    [][(EvaluatingStep /\ Scenario1Record(record)) =>
          LET created == SubSeq(healthNotifs', Len(healthNotifs) + 1, Len(healthNotifs'))
          IN  /\ \E i \in 1..Len(alerts') : alerts'[i] = Alert("hypertensive_crisis", "critical")
              /\ Len(created) = IF record.has_physician THEN 2 ELSE 1
              /\ \A i \in 1..Len(created) : created[i].status = "pending"
              /\ {created[i].user : i \in 1..Len(created)} =
                    IF record.has_physician THEN {"patient", "physician"} ELSE {"patient"}]_vars

(***************************************************************************)
(* Further properties of the medication model.                             *)
(***************************************************************************)
\* floor(quantity_remaining / dailyConsumption), dailyConsumption being the
\* multiplier of the frequency times the dose amount
ClaimedDaysSupply(m) ==
    (m.quantity_remaining * FreqDen(m.frequency)) \div (m.dosage_amount * FreqNum(m.frequency))

C18_RefillQuantityValidated ==
    [][\A q \in RefillQuantities, r \in RefillCounts :
          AddRefill(q, r) =>
              IF q <= 0
              THEN /\ medResponse' = "validation_error"
                   /\ med'.quantity_remaining = med.quantity_remaining
                   /\ med'.refills_remaining = med.refills_remaining
                   /\ med'.last_refill_date = med.last_refill_date
                   /\ med'.next_refill_due = med.next_refill_due
              ELSE /\ med'.quantity_remaining =
                        (IF med.quantity_remaining = NULL THEN 0 ELSE med.quantity_remaining) + q
                   /\ med'.refills_remaining = r
                   /\ med'.last_refill_date = now]_vars

\* whole days on the medication, and the doses expected over them times
\* the denominator of the daily consumption
ClaimedDaysOn(m, t) == (t - m.start_date) \div 86400

ClaimedExpectedNum(m, t) ==
    ClaimedDaysOn(m, t) * (IF m.dosage_amount = NULL THEN 1 ELSE m.dosage_amount)
        * FreqNum(m.frequency)

C20_InAppDeliveredOnCreation ==
    \A n \in NotifIds :
        (notif[n].exists /\ notif[n].channel = "in_app") =>
            /\ notif[n].status \notin {"pending", "failed", "cancelled"}
            /\ transportCalls[n] = 0

\* the channels a notification is said to be deliverable on
ClaimedChannels == {"email", "sms", "push", "in_app", "phone_call"}

\* C21: on each of the channels email, sms, push, in-app and phone-call,
\* dispatch of a pending unexpired notification hands it to the delivery
\* capability of the channel: it ends sent with sent_at stamped, or failed
\* with the reason the capability reported, never failed for want of a
\* capability; so an emergency alert on the phone-call channel can be sent.
C21_EveryChannelDelegated ==
    [][\A n \in NotifIds :
          (/\ SendNotification(n)
           /\ notif[n].exists /\ notif[n].status = "pending"
           /\ ~is_expired(notif[n], now)
           /\ notif[n].channel \in ClaimedChannels) =>
              \/ notif'[n].status = "sent" /\ notif'[n].sent_at = now
              \/ notif'[n].status = "failed" /\ notif'[n].failure_reason = "send_failed"]_vars

(***************************************************************************)
(* SpecTransport: dispatch with every return of the channel helpers told   *)
(* apart: send_email_notification and send_sms_notification return         *)
(* (False, "... not found") before any transport call, (False, "Failed to  *)
(* send ...") when the service reports failure and (False, str(e)) when    *)
(* the service raises.                                                     *)
(***************************************************************************)
TransportOutcomes(channel) ==
    IF channel \in {"email", "sms"}
    THEN {[called |-> TRUE, success |-> TRUE, reason |-> "none"],
          [called |-> FALSE, success |-> FALSE, reason |-> "no_address"],
          [called |-> TRUE, success |-> FALSE, reason |-> "send_failed"],
          [called |-> TRUE, success |-> FALSE, reason |-> "exception"]}
    ELSE Delivery(channel)

\* a worker runs a queued send_notification task
DispatchAttempt(n) ==
    /\ transportCalls[n] < MaxTransportCalls
    /\ SendNotificationWith(n, [c \in Channels |-> TransportOutcomes(c)])

NextTransport ==
    \/ Tick
    \/ ProcessNotificationQueue
    \/ RetryFailedNotifications
    \/ \E n \in NotifIds : DispatchAttempt(n)

SpecTransport == Init /\ [][NextTransport]_vars

\* a dispatch whose channel helper returns failure
FailedAttempt(n) ==
    SendNotificationWith(n, [c \in Channels |-> {o \in TransportOutcomes(c) : ~o.success}])

\* C22: a delivery attempt on a pending unexpired notification whose
\* transport reports failure or raises ends with the notification failed,
\* failed_at stamped, the reason recorded and retry_count one higher; the
\* task returns 'failed' instead of raising and the notification is not
\* left pending.
C22_TransportFailureBecomesFailed ==
    [][\A n \in NotifIds :
          (/\ FailedAttempt(n)
           /\ notif[n].exists /\ notif[n].status = "pending"
           /\ ~is_expired(notif[n], now)) =>
              /\ notif'[n].status = "failed"
              /\ notif'[n].failed_at = now
              /\ notif'[n].failure_reason \in {"no_address", "send_failed", "exception", "unsupported"}
              /\ notif'[n].retry_count = notif[n].retry_count + 1
              /\ lastResult'[n] = "failed"]_vars

\* the transport raised on the second attempt of an email notification
C22_Witness ==
    \E n \in NotifIds :
        /\ notif[n].channel = "email"
        /\ notif[n].status = "failed"
        /\ notif[n].failure_reason = "exception"
        /\ notif[n].failed_at = now
        /\ notif[n].retry_count = 2
        /\ transportCalls[n] = 2
        /\ lastResult[n] = "failed"

(***************************************************************************)
(* Further properties of the adherence score.                              *)
(***************************************************************************)
\* C23: adherence_score, when it is not null, lies between 0 and 100 after
\* any sequence of recordMissedDose and updateAdherenceScore calls, for
\* every frequency and every missed-dose count, a count above the expected
\* doses included.
C23_AdherenceScoreInRange ==
    med.adherence_score # NULL => (0 <= med.adherence_score /\ med.adherence_score <= 100 * 100)

\* more doses missed than were expected over the days on the medication:
\* the score computed is 0
C23_Witness ==
    /\ med.start_date # NULL
    /\ ClaimedDaysOn(med, now) > 0
    /\ ClaimedExpectedNum(med, now) > 0
    /\ med.missed_doses * FreqDen(med.frequency) > ClaimedExpectedNum(med, now)
    /\ medResponse = "ok"
    /\ med.adherence_score = 0

(***************************************************************************)
(* Properties of the scheduled runs over the notifications table.          *)
(***************************************************************************)
\* C24: no notification with scheduled_for set becomes sent at a time
\* earlier than scheduled_for, whether its dispatch was queued by the queue
\* run or by the retry run, and the queue run selects exactly the pending
\* notifications with scheduled_for null or <= now and expires_at null or
\* > now.
C24_NotSentBeforeScheduledFor ==
    /\ [][\A n \in NotifIds :
            (/\ notif[n].scheduled_for # NULL
             /\ notif[n].status # "sent"
             /\ notif'[n].status = "sent") => now >= notif[n].scheduled_for]_vars
    /\ [][ProcessNotificationQueue =>
            \A n \in NotifIds :
                queued'[n] = queued[n] + 1 <=>
                    /\ notif[n].exists /\ notif[n].status = "pending"
                    /\ (notif[n].scheduled_for = NULL \/ notif[n].scheduled_for <= now)
                    /\ (notif[n].expires_at = NULL \/ notif[n].expires_at > now)]_vars

(***************************************************************************)
(* SpecRetry: the queue run, the retry run and the workers kept running,   *)
(* with a delivery service that may report a notification failed.          *)
(***************************************************************************)
\* update_notification_delivery_status(notification_id, 'failed', ...),
\* followed for as long as the transport calls are
ReportFailed(n) ==
    /\ transportCalls[n] < MaxTransportCalls
    /\ UpdateNotificationDeliveryStatus(n, "failed")

NextRetry ==
    \/ TickToRetry
    \/ ProcessNotificationQueue
    \/ RetryFailedNotifications
    \/ \E n \in NotifIds : SendNotification(n)
    \/ \E n \in NotifIds : ReportFailed(n)

SpecRetry ==
    /\ Init
    /\ [][NextRetry]_vars
    /\ WF_vars(TickToRetry)
    /\ WF_vars(ProcessNotificationQueue)
    /\ WF_vars(RetryFailedNotifications)
    /\ \A n \in NotifIds : WF_vars(SendNotification(n))

\* the retry run resets a failed notification only with retries left and
\* its next_retry_at reached
C25_ResetOnlyWhenDue ==
    [][\A n \in NotifIds :
          (RetryFailedNotifications /\ notif[n].status = "failed" /\ notif'[n].status = "pending") =>
              /\ notif[n].retry_count < notif[n].max_retries
              /\ notif[n].next_retry_at # NULL
              /\ notif[n].next_retry_at <= now]_vars

\* with the retry run kept running, a failed notification with retries left
\* that is not expired is reset to pending and queued for dispatch
C25_EventuallyRetried ==
    \A n \in NotifIds :
        (notif[n].exists /\ can_retry(notif[n], now))
            ~> (notif[n].status = "pending" /\ queued[n] > 0)

\* C25: the retry run resets a failed notification to pending only when
\* retry_count < max_retries and next_retry_at has been reached, never
\* earlier; and, the retry run kept running, every failed notification with
\* retries left that is not expired is eventually reset to pending and
\* dispatched again.
C25_RetryWhenDueAndEventually == C25_ResetOnlyWhenDue /\ C25_EventuallyRetried

(***************************************************************************)
(* SpecPeriodic: the queue run, the retry run, the expiry cleanup and the  *)
(* workers, all of them kept running.                                      *)
(***************************************************************************)
NextPeriodic ==
    \/ TickToRetry
    \/ ProcessNotificationQueue
    \/ RetryFailedNotifications
    \/ CleanupExpiredNotifications
    \/ \E n \in NotifIds : SendNotification(n)

SpecPeriodic ==
    /\ Init
    /\ [][NextPeriodic]_vars
    /\ WF_vars(TickToRetry)
    /\ WF_vars(ProcessNotificationQueue)
    /\ WF_vars(RetryFailedNotifications)
    /\ WF_vars(CleanupExpiredNotifications)
    /\ \A n \in NotifIds : WF_vars(SendNotification(n))

\* a pending notification whose expires_at has passed
PendingExpired(n) ==
    /\ notif[n].exists
    /\ notif[n].status = "pending"
    /\ notif[n].expires_at # NULL
    /\ now > notif[n].expires_at

\* C26: with the periodic tasks kept running, every pending notification
\* whose expires_at has passed is eventually cancelled, by the expiry
\* cleanup or by a dispatch attempt; and the expiry cleanup changes the
\* status of no notification that is not both pending and past expires_at.
C26_ExpiredPendingEventuallyCancelled ==
    /\ \A n \in NotifIds : PendingExpired(n) ~> (notif[n].status = "cancelled")
    /\ [][CleanupExpiredNotifications =>
            \A n \in NotifIds :
                notif'[n].status # notif[n].status =>
                    (PendingExpired(n) /\ notif'[n].status = "cancelled")]_vars

\* the cleanup has cancelled an expired notification that no dispatch looked at
C26_Witness ==
    \E n \in NotifIds :
        /\ notif[n].status = "cancelled"
        /\ notif[n].expires_at # NULL /\ now > notif[n].expires_at
        /\ lastResult[n] = "none"
        /\ queued[n] = 0

(***************************************************************************)
(* SpecAlerts: a health-alert or an emergency-alert notification, as       *)
(* Notification.create_health_alert and Notification.create_emergency_alert *)
(* construct it, under the periodic tasks kept running.                    *)
(***************************************************************************)
\* Notification.create_emergency_alert at time t: channel PHONE_CALL
create_emergency_alert(t) == NewNotification("phone_call", t, NULL, t)

\* the row of a Notification.create_health_alert at time t: no channel
\* given, so the column default IN_APP
HealthAlertRow(t) == NewNotification("in_app", t, NULL, t)

\* when the alert was created: now, or one or two ticks ago
AlertCreatedValues == {StartTime, StartTime - TickSeconds, StartTime - 2 * TickSeconds}

AlertsInit ==
    /\ now = StartTime
    /\ notif \in [NotifIds -> {create_emergency_alert(t) : t \in AlertCreatedValues}
                                \cup {HealthAlertRow(t) : t \in AlertCreatedValues}]
    /\ queued = [n \in NotifIds |-> 0]
    /\ transportCalls = [n \in NotifIds |-> 0]
    /\ lastResult = [n \in NotifIds |-> "none"]
    /\ WorkersIdle
    /\ MedParked
    /\ HealthParked
    /\ BatchParked

SpecAlerts ==
    /\ AlertsInit
    /\ [][NextPeriodic]_vars
    /\ WF_vars(TickToRetry)
    /\ WF_vars(ProcessNotificationQueue)
    /\ WF_vars(RetryFailedNotifications)
    /\ WF_vars(CleanupExpiredNotifications)
    /\ \A n \in NotifIds : WF_vars(SendNotification(n))

\* a delivery of the notification has been attempted: its transport was
\* invoked or, on the in-app channel, the stored row was marked sent
DeliveryAttempted(n) ==
    \/ transportCalls[n] >= 1
    \/ notif[n].channel = "in_app" /\ notif[n].status = "sent"

\* C27: with the periodic tasks kept running, every health-alert and
\* emergency-alert notification created has its delivery attempted at least
\* once, and it is never cancelled, never deleted and not left pending for
\* ever.
C27_NoCriticalAlertLost ==
    /\ \A n \in NotifIds : <>DeliveryAttempted(n)
    /\ \A n \in NotifIds : [](notif[n].exists /\ notif[n].status # "cancelled")
    /\ \A n \in NotifIds : <>[](notif[n].status # "pending")

(***************************************************************************)
(* SpecReminders: send_medication_reminders run again and again over a     *)
(* batch of two medications, no dose being recorded in between.            *)
(***************************************************************************)
\* last_taken: never, or a quarter of an hour short of four hours ago
ReminderLastTakenValues == {NULL, StartTime - 4 * SecondsPerHour + 900}

ReminderItems ==
    {Item([NewMedication(f, 1, NULL, StartTime) EXCEPT !.status = s, !.last_taken = l], u, NoPrescription) :
        f \in {"once_daily", "as_needed"}, s \in {"active", "on_hold"},
        l \in ReminderLastTakenValues, u \in BOOLEAN}

RemindersInit ==
    /\ now = StartTime
    /\ meds \in [MedIds -> ReminderItems]
    /\ reminders = <<>>
    /\ runLog = <<>>
    /\ notif = [n \in NotifIds |-> NewNotification("in_app", NULL, NULL, StartTime)]
    /\ queued = [n \in NotifIds |-> 0]
    /\ transportCalls = [n \in NotifIds |-> 0]
    /\ lastResult = [n \in NotifIds |-> "none"]
    /\ WorkersIdle
    /\ MedParked
    /\ HealthParked

NextReminders ==
    \/ ReminderTick
    \/ \E errs \in [MedIds -> ItemErrors] : SendMedicationReminders(errs)

SpecReminders == RemindersInit /\ [][NextReminders]_vars

(***************************************************************************)
(* Properties of the runs over medications.                                *)
(***************************************************************************)
\* a run in which no pass of the loop raises
NoErrors == [id \in MedIds |-> "none"]

\* the notifications a step appends to reminders
CreatedByStep == SubSeq(reminders', Len(reminders) + 1, Len(reminders'))

\* C28: a dose-reminder run creates exactly one new pending
\* medication-reminder notification for every medication that is active,
\* has a patient with a user and is due for a dose, and none for any other
\* medication; it does not look at earlier reminders, so consecutive runs
\* with no dose recorded each create one more for the same medication.
C28_OneReminderPerDueMedicationPerRun ==
    [][SendMedicationReminders(NoErrors) =>
          \A id \in MedIds :
              LET mine == {k \in 1..Len(CreatedByStep) : CreatedByStep[k].medication_id = id}
                  due == /\ meds[id].medication.status = "active"
                         /\ meds[id].has_user
                         /\ is_time_for_dose(meds[id].medication, now)
              IN  /\ Cardinality(mine) = IF due THEN 1 ELSE 0
                  /\ \A k \in mine :
                        /\ CreatedByStep[k].notification_type = "medication_reminder"
                        /\ CreatedByStep[k].status = "pending"]_vars

\* two runs, no dose recorded in between, have each created a reminder for
\* the same medication
C28_Witness ==
    /\ Len(runLog) = 2
    /\ \E id \in MedIds :
        /\ runLog[1][id] = "created" /\ runLog[2][id] = "created"
        /\ Cardinality({k \in 1..Len(reminders) : reminders[k].medication_id = id}) = 2

(***************************************************************************)
(* SpecRefillRun: check_prescription_refills run over a batch of two       *)
(* medications with their prescriptions.                                   *)
(***************************************************************************)
\* next_refill_due / next_fill_date: unset, reached, or reached after a tick
RefillDueValues == {NULL, StartTime, StartTime + ReminderTickSeconds}

RefillPrescriptions ==
    {NoPrescription}
    \cup {NewPrescription(s, r, d) : s \in {"active", "draft"}, r \in {0, 2}, d \in RefillDueValues}

RefillItems ==
    {Item([NewMedication("once_daily", 1, 9, StartTime) EXCEPT !.next_refill_due = d], u, p) :
        d \in RefillDueValues, u \in BOOLEAN, p \in RefillPrescriptions}

RefillRunInit ==
    /\ now = StartTime
    /\ meds \in [MedIds -> RefillItems]
    /\ reminders = <<>>
    /\ runLog = <<>>
    /\ notif = [n \in NotifIds |-> NewNotification("in_app", NULL, NULL, StartTime)]
    /\ queued = [n \in NotifIds |-> 0]
    /\ transportCalls = [n \in NotifIds |-> 0]
    /\ lastResult = [n \in NotifIds |-> "none"]
    /\ WorkersIdle
    /\ MedParked
    /\ HealthParked

NextRefillRun ==
    \/ ReminderTick
    \/ CheckPrescriptionRefills

SpecRefillRun == RefillRunInit /\ [][NextRefillRun]_vars

\* C29: a refill run creates a refill-reminder notification for every
\* medication (of a patient with a user) whose next_refill_due is set and
\* <= now and for no medication whose next_refill_due is unset or in the
\* future: the medication's own next_refill_due drives the selection.
C29_RefillReminderWhenRefillDue ==
    [][CheckPrescriptionRefills =>
          \A id \in MedIds :
              meds[id].has_user =>
                  LET mine == {k \in 1..Len(CreatedByStep) :
                                  /\ CreatedByStep[k].medication_id = id
                                  /\ CreatedByStep[k].notification_type = "refill_reminder"}
                      due == /\ meds[id].medication.next_refill_due # NULL
                             /\ meds[id].medication.next_refill_due <= now
                  IN  Cardinality(mine) = IF due THEN 1 ELSE 0]_vars

ScanRaceInit ==
    /\ now = StartTime
    /\ record \in {NewHealthRecord(sy, 80, hr, 98, 97, 100, ra, pa[1], pa[2]) :
                       sy \in {120, 190}, hr \in {80, 130},
                       ra \in RecordedAtValues, pa \in PatientValues}
    /\ alerts = <<>>
    /\ healthNotifs = <<>>
    /\ scanLog = <<>>
    /\ ScansIdle
    /\ notif = [n \in NotifIds |-> NewNotification("in_app", NULL, NULL, StartTime)]
    /\ queued = [n \in NotifIds |-> 0]
    /\ transportCalls = [n \in NotifIds |-> 0]
    /\ lastResult = [n \in NotifIds |-> "none"]
    /\ WorkersIdle
    /\ MedParked
    /\ BatchParked

NextScanRace ==
    \/ HealthTick
    \/ \E s \in Scanners : ScanLoad(s)
    \/ \E s \in Scanners : ScanCommit(s)

SpecScanRace == ScanRaceInit /\ [][NextScanRace]_vars

\* the notifications the scans added for one recipient and one alert
NotificationsFor(user, alert) ==
    {k \in 1..Len(healthNotifs) : healthNotifs[k].user = user /\ healthNotifs[k].alert = alert}

CleanupCreatedAtValues ==
    {StartTime,
     StartTime - RetentionSeconds, 0,
     StartTime - DefaultDaysOld * SecondsPerDay,
     StartTime - DefaultDaysOld * SecondsPerDay - TickSeconds}

\* no expiry, an expiry already passed, one still to come
CleanupExpiresAtValues == {NULL, StartTime - TickSeconds, EndTime + TickSeconds}

CleanupInit ==
    /\ now = StartTime
    /\ notif \in [NotifIds -> {NewNotification("in_app", NULL, e, c) :
                                  e \in CleanupExpiresAtValues, c \in CleanupCreatedAtValues}]
    /\ queued = [n \in NotifIds |-> 0]
    /\ transportCalls = [n \in NotifIds |-> 0]
    /\ lastResult = [n \in NotifIds |-> "none"]
    /\ WorkersIdle
    /\ MedParked
    /\ HealthParked
    /\ BatchParked

NextCleanup ==
    \/ Tick
    \/ ProcessNotificationQueue
    \/ \E n \in NotifIds : Dispatch(n)
    \/ \E n \in NotifIds : MarkAsRead(n)
    \/ CleanupExpiredNotifications
    \/ CleanupOldNotifications

SpecCleanup == CleanupInit /\ [][NextCleanup]_vars

Deleted(n) == notif[n].exists /\ ~notif'[n].exists

PastExpiry(n) == notif[n].expires_at # NULL /\ notif[n].expires_at < now

\* C32: a cleanup deletes a notification only if it was created longer ago
\* than that cleanup's retention window (thirty days for
\* cleanup_expired_notifications, ninety for cleanup_old_notifications) and
\* it is read or past its expires_at; an unread notification with no
\* expires_at or one still to come is never deleted; and a cleanup leaves
\* the medication and health-record rows as they are.
C32_CleanupDeletesOnlyOldReadOrExpired ==
    [][/\ \A n \in NotifIds :
             Deleted(n) =>
                 /\ CleanupExpiredNotifications \/ CleanupOldNotifications
                 /\ notif[n].created_at < now - RetentionSeconds
                 /\ notif[n].is_read \/ PastExpiry(n)
                 /\ ~notif[n].is_read => notif[n].created_at < now - DefaultDaysOld * SecondsPerDay
       /\ (CleanupExpiredNotifications \/ CleanupOldNotifications)
             => UNCHANGED <<med, record, meds>>]_vars

\* a cleanup has deleted a notification, and it was an unread one
C32_Witness ==
    \E n \in NotifIds : ~notif[n].exists /\ ~notif[n].is_read /\ notif[n].expires_at # NULL

(***************************************************************************)
(* SpecAttempts: the queue run, the retry run, the workers and the         *)
(* delivery-status updates over a notification created with a small        *)
(* max_retries, one send_notification execution at a time.                 *)
(***************************************************************************)
\* max_retries: Optional[int] = Field(3, ge=0, le=10); the values below the
\* number of transport calls followed
AttemptsMaxRetries == {1, 2}

AttemptsInit ==
    /\ now = StartTime
    /\ notif \in [NotifIds -> {[NewNotification(c, NULL, NULL, StartTime) EXCEPT !.max_retries = m] :
                                  c \in {"email", "sms"}, m \in AttemptsMaxRetries}]
    /\ queued = [n \in NotifIds |-> 0]
    /\ transportCalls = [n \in NotifIds |-> 0]
    /\ lastResult = [n \in NotifIds |-> "none"]
    /\ WorkersIdle
    /\ MedParked
    /\ HealthParked
    /\ BatchParked

NextAttempts ==
    \/ Tick
    \/ ProcessNotificationQueue
    \/ RetryFailedNotifications
    \/ \E n \in NotifIds : Dispatch(n)
    \/ \E n \in NotifIds, s \in ReportedStatuses : UpdateNotificationDeliveryStatus(n, s)

SpecAttempts == AttemptsInit /\ [][NextAttempts]_vars

\* C33: with one send_notification execution at a time, the delivery
\* transport is invoked at most max_retries times for a notification, over
\* every sequence of queue runs, retry runs and delivery-status updates.
C33_TransportCallsWithinMaxRetries ==
    \A n \in NotifIds : transportCalls[n] <= notif[n].max_retries

DoseReminderItems ==
    {m \in [MedIds -> {Item(NewMedication(f, 1, NULL, StartTime), TRUE, NoPrescription) : f \in Frequencies}] :
        m[2].medication.frequency = "once_daily"}

DoseRemindersInit ==
    /\ now = StartTime
    /\ meds \in DoseReminderItems
    /\ reminders = <<>>
    /\ runLog = <<>>
    /\ notif = [n \in NotifIds |-> NewNotification("in_app", NULL, NULL, StartTime)]
    /\ queued = [n \in NotifIds |-> 0]
    /\ transportCalls = [n \in NotifIds |-> 0]
    /\ lastResult = [n \in NotifIds |-> "none"]
    /\ WorkersIdle
    /\ MedParked
    /\ HealthParked

\* taken_at of the request: absent, or a dose reported as taken a quarter
\* of an hour short of the interval ago
TakenAtChoices(id) ==
    {NULL, now - FrequencyHours(meds[id].medication.frequency) * SecondsPerHour + ReminderTickSeconds}

NextDoseReminders ==
    \/ ReminderTick
    \/ \E id \in MedIds : \E ta \in TakenAtChoices(id) : RecordDoseTakenOn(id, ta)
    \/ SendMedicationReminders(NoErrors)

SpecDoseReminders == DoseRemindersInit /\ [][NextDoseReminders]_vars

\* a dose of the medication is on record and the claimed interval of its
\* frequency has not elapsed since
WithinInterval(id) ==
    /\ meds[id].medication.last_taken # NULL
    /\ now - meds[id].medication.last_taken < ClaimedIntervalHours(meds[id].medication.frequency) * 3600

\* C35: right after a dose is recorded as taken now, is_time_for_dose is
\* false whatever the frequency; it is false for as long as the interval of
\* the frequency has not elapsed since the recorded dose; and no
\* dose-reminder run in that time creates a reminder for the medication.
C35_NoReminderWithinIntervalOfDose ==
    /\ [][\A id \in MedIds :
             RecordDoseTakenOn(id, NULL) => ~is_time_for_dose(meds'[id].medication, now')]_vars
    /\ [](\A id \in MedIds : WithinInterval(id) => ~is_time_for_dose(meds[id].medication, now))
    /\ [][SendMedicationReminders(NoErrors) =>
             \A id \in MedIds :
                 WithinInterval(id) =>
                     \A k \in 1..Len(CreatedByStep) : CreatedByStep[k].medication_id # id]_vars

\* a dose was recorded, a run inside the interval passed the medication
\* over, and a later run, the interval elapsed, created its reminder
C35_Witness ==
    \E id \in MedIds :
        /\ Len(runLog) = 2
        /\ runLog[1][id] = "not_due"
        /\ runLog[2][id] = "created"
        /\ meds[id].medication.last_taken # NULL
        /\ Cardinality({k \in 1..Len(reminders) : reminders[k].medication_id = id}) = 1

\* C36: after every recorded dose and every added refill, next_refill_due
\* agrees with the supply the call leaves: it is set exactly when
\* days_supply_remaining is above 7, to the time of the call plus
\* (days_supply_remaining - 7) days; a date computed from an earlier, larger
\* supply is gone once a dose brings the supply to 7 days or fewer.
C36_RefillDueFollowsSupply ==
    [][((\E ta \in TakenAtValues : RecordDoseTaken(ta))
           \/ (\E q \in RefillQuantities, r \in RefillCounts : AddRefill(q, r))) =>
          IF days_supply_remaining(med') > 7
          THEN med'.next_refill_due = now + (days_supply_remaining(med') - 7) * 86400
          ELSE med'.next_refill_due = NULL]_vars

====
